---- MODULE Spec2Model ----
(***************************************************************************)
(* Gemini chat client: the response assembler (src/utils/gemini.ts), the   *)
(* session store client (src/utils/firebase.ts) and the session controller *)
(* (ChatContainer, ChatSidebar, ChatInput).                                *)
(*                                                                         *)
(* Text is a sequence of characters, each a one-character string; the      *)
(* backtick is written BT because a string cannot hold it.                 *)
(***************************************************************************)
EXTENDS Integers, Sequences, FiniteSets, TLC

VARIABLES
    text,       \* gemini.ts fullResponse: the accumulated raw text
    fences,     \* the fenced regions written into text so far, in order
    nParts,     \* how many pieces text was assembled from
    store,      \* the session store: chats/{userId}/{apiKey}/{sessionId}
    now,        \* Date.now()
    nextId,     \* the next session id uuidv4() hands out
    netq,       \* store requests sent and not yet answered, oldest first
    wire,       \* what the store requests sent so far carried: their paths and payloads
    sessions,   \* ChatSidebar sessions: the result of the last getChatSessions
    messages,   \* chatState.messages
    loading,    \* chatState.loading
    error,      \* chatState.error
    currentSessionId,   \* chatState.currentSessionId, NoSession for null
    sends,      \* the handleSendMessage calls: where each one stands
    deletedIds, \* the sessions whose deleteChatSession has completed
    deletedOpen,    \* those of them deleted from the sidebar while they were the open session
    savedDone,  \* per session: which messages of the stored list had finished streaming
    settings,   \* ChatContainer settings: model, the three switches, the system instruction
    modelRef,   \* model.current: the configuration the generative model was built for
    initFailed, \* whether the most recent initializeGeminiAPI call threw
    execPending,    \* executeCode calls whose timer has not fired yet, oldest first
    execLog,    \* executeCode calls that settled: their arguments and their outcome
    genPc,      \* where a generateStreamingChatResponse call stands
    thinkingResult, \* the text of the response to the thinking prompt, Absent before it
    thinking,   \* gemini.ts thinking, Absent for undefined
    allCodeBlocks,  \* gemini.ts allCodeBlocks
    onChunkCall,    \* the arguments of the latest onChunk call of the generation
    thinkingThrew,  \* whether the preliminary thinking exchange of the generation threw
    streamSent, \* whether chat.sendMessageStream has been called in the generation
    failedWrites,   \* how many store writes were rejected
    systemInstructions, \* gemini.ts systemInstructions: the assembled instruction text
    codeBlocks, \* ChatMessage codeBlocks: the blocks of one message as the component shows them
    executingCodeIndex, \* ChatMessage executingCodeIndex, NoIndex for null
    running,    \* ChatMessage handleExecuteCode calls awaiting executeCode, oldest first
    images,     \* ChatInput images: the images pending for the next message
    upload,     \* the handleImageUpload call: its files, newImages and processedFiles
    nOps        \* how many operations the user has started from the sidebar and the buttons

extractVars == <<text, fences, nParts>>
storeVars == <<store, now, nextId, netq, wire, sessions>>
chatVars == <<messages, loading, error, currentSessionId, sends>>
histVars == <<deletedIds, deletedOpen, savedDone, nOps>>
settingsVars == <<settings, modelRef, initFailed>>
blockVars == <<codeBlocks, executingCodeIndex, running>>
imageVars == <<images, upload>>
execVars == <<execPending, execLog>>
faultVars == <<failedWrites>>
assemblyVars == <<systemInstructions>>
genVars == <<genPc, thinkingResult, thinking, allCodeBlocks, onChunkCall, thinkingThrew,
            streamSent>>
vars == <<text, fences, nParts, store, now, nextId, netq, wire, sessions,
          messages, loading, error, currentSessionId, sends, deletedIds,
          deletedOpen, savedDone, nOps, settings, modelRef, initFailed,
          execPending, execLog, genPc, thinkingResult, thinking, allCodeBlocks,
          onChunkCall, thinkingThrew, streamSent, failedWrites, systemInstructions,
          codeBlocks, executingCodeIndex, running, images, upload>>

(***************************************************************************)
(* Characters                                                              *)
(***************************************************************************)
BT == "bt"
NL == "\n"
SP == " "

LowerCase == <<"a","b","c","d","e","f","g","h","i","j","k","l","m",
               "n","o","p","q","r","s","t","u","v","w","x","y","z">>
UpperCase == <<"A","B","C","D","E","F","G","H","I","J","K","L","M",
               "N","O","P","Q","R","S","T","U","V","W","X","Y","Z">>
Digits == {"0","1","2","3","4","5","6","7","8","9"}

Range(f) == {f[i] : i \in DOMAIN f}

\* the regex class \w
IsWordChar(c) == c \in Range(LowerCase) \cup Range(UpperCase) \cup Digits \cup {"_"}

\* the characters String.prototype.trim removes
IsSpace(c) == c \in {SP, NL, "\t", "\r"}

\* String.prototype.toLowerCase on one character
LowerChar(c) ==
    IF c \in Range(UpperCase)
    THEN LowerCase[CHOOSE i \in DOMAIN UpperCase : UpperCase[i] = c]
    ELSE c

toLowerCase(s) == [i \in DOMAIN s |-> LowerChar(s[i])]

\* String.prototype.trim
RECURSIVE TrimLeft(_)
TrimLeft(s) == IF s # <<>> /\ IsSpace(Head(s)) THEN TrimLeft(Tail(s)) ELSE s

RECURSIVE TrimRight(_)
TrimRight(s) ==
    IF s # <<>> /\ IsSpace(s[Len(s)]) THEN TrimRight(SubSeq(s, 1, Len(s) - 1)) ELSE s

trim(s) == TrimRight(TrimLeft(s))

(***************************************************************************)
(* extractCodeBlocks: /```(\w+)?\n([\s\S]*?)```/g run with exec until null *)
(***************************************************************************)
\* three backticks start at position i
FenceAt(s, i) == i + 2 <= Len(s) /\ s[i] = BT /\ s[i + 1] = BT /\ s[i + 2] = BT

\* (\w+)? is greedy: the end (exclusive) of the run of word characters at i
RECURSIVE WordRunEnd(_, _)
WordRunEnd(s, i) == IF i <= Len(s) /\ IsWordChar(s[i]) THEN WordRunEnd(s, i + 1) ELSE i

\* what a greedy body [\s\S]* would find: the last position >= i where three backticks start
RECURSIVE LastFence(_, _)
LastFence(s, i) ==
    IF i + 2 > Len(s) THEN 0
    ELSE LET later == LastFence(s, i + 1)
         IN  IF later # 0 THEN later ELSE IF FenceAt(s, i) THEN i ELSE 0

\* [\s\S]*? is lazy: the first position >= i where three backticks start, 0 if none
RECURSIVE FirstFence(_, _)
FirstFence(s, i) ==
    IF i + 2 > Len(s) THEN 0
    ELSE IF FenceAt(s, i) THEN i
    ELSE FirstFence(s, i + 1)

\* The match of the regex that starts exactly at p, or NoMatch.  The tag group
\* must be followed by a newline; a shorter tag leaves a word character where
\* the newline is required, so only the whole run (or no tag) can match.
NoMatch == [ok |-> FALSE]

MatchAt(s, p) ==
    IF ~FenceAt(s, p) THEN NoMatch
    ELSE LET q == p + 3
             e == WordRunEnd(s, q)
         IN  IF e > Len(s) \/ s[e] # NL THEN NoMatch
             ELSE LET c == FirstFence(s, e + 1)
                  IN  IF c = 0 THEN NoMatch
                      ELSE [ok |-> TRUE,
                            tag |-> SubSeq(s, q, e - 1),
                            body |-> SubSeq(s, e + 1, c - 1),
                            end |-> c + 3]

\* RegExp.prototype.exec from lastIndex: the leftmost match at or after i
RECURSIVE Exec(_, _)
Exec(s, i) ==
    IF i > Len(s) THEN NoMatch
    ELSE LET m == MatchAt(s, i)
         IN  IF m.ok THEN m ELSE Exec(s, i + 1)

\* match[1]?.toLowerCase() || 'text'
TextLanguage == <<"t","e","x","t">>

BlockLanguage(tag) == IF tag = <<>> THEN TextLanguage ELSE toLowerCase(tag)

BlockCode(body) == trim(body)

RECURSIVE ExtractFrom(_, _)
ExtractFrom(s, i) ==
    LET m == Exec(s, i)
    IN  IF ~m.ok THEN <<>>
        ELSE <<[language |-> BlockLanguage(m.tag), code |-> BlockCode(m.body)]>>
             \o ExtractFrom(s, m.end)

extractCodeBlocks(markdown) == ExtractFrom(markdown, 1)

(***************************************************************************)
(* The session store (firebase.ts)                                         *)
(***************************************************************************)
MaxSessions == 3
MaxClock == 1
MaxQueue == 3
TitleLimit == 30
TextSlack == 2

SessionIds == 1..MaxSessions
NoSession == 0

\* a field the node does not have (undefined in the snapshot)
Absent == <<"(absent)">>

NewChatTitle == <<"N","e","w",SP,"C","h","a","t">>
Ellipsis == <<".",".",".">>

\* the node at chats/{userId}/{apiKey}/{sessionId}; a path with no child does not exist
NoNode == [hasId |-> FALSE, title |-> Absent, hasUpdatedAt |-> FALSE, updatedAt |-> 0,
           messages |-> <<>>]

Exists(node) == node # NoNode

\* what a request carries to the store: the pieces of its path and of its payload
SessionPath == <<"chats", "userId", "apiKey", "sessionId">>
MessagesPath == <<"chats", "userId", "apiKey", "sessionId", "messages">>
SessionsPath == <<"chats", "userId", "apiKey">>

Carried(op) ==
    CASE op = "create" -> [path |-> SessionPath, payload |-> {"sessionId", "title", "Date.now"}]
      [] op = "rename" -> [path |-> SessionPath, payload |-> {"title", "Date.now"}]
      [] op = "list" -> [path |-> SessionsPath, payload |-> {}]
      [] op = "remove" -> [path |-> SessionPath, payload |-> {}]
      [] op = "setMessages" -> [path |-> MessagesPath, payload |-> {"messages", "Date.now"}]
      [] op = "update" -> [path |-> SessionPath, payload |-> {"title", "Date.now"}]
      [] op = "getMessages" -> [path |-> MessagesPath, payload |-> {}]

\* a request on its way; the fields an operation does not use are left empty
Request(op, sid, title, msgs, t, cont, who) ==
    [op |-> op, sid |-> sid, title |-> title, msgs |-> msgs, t |-> t, cont |-> cont,
     who |-> who]

\* the requests reqs go out behind the ones of q
Enqueue(q, reqs) ==
    /\ netq' = q \o reqs
    /\ wire' = wire \cup {Carried(reqs[i].op) : i \in DOMAIN reqs}

Room(n) == Len(netq) + n <= MaxQueue

\* set(sessionRef, {id, title, createdAt, updatedAt})
createChatSession(st, sid, title, t) ==
    [st EXCEPT ![sid] = [hasId |-> TRUE, title |-> title, hasUpdatedAt |-> TRUE,
                         updatedAt |-> t, messages |-> <<>>]]

\* update(sessionRef, {title, updatedAt})
updateChatSessionTitle(st, sid, title, t) ==
    [st EXCEPT ![sid].title = title, ![sid].hasUpdatedAt = TRUE, ![sid].updatedAt = t]

\* remove(sessionRef)
deleteChatSession(st, sid) == [st EXCEPT ![sid] = NoNode]

\* a code block as it is stored: language and code
StoredBlock(block) == [language |-> block.language, code |-> block.code]

\* the message handed to set() unchanged
StorableAsIs(m) == m

\* saveMessages, the stored form of one message.  A field of the message that is
\* undefined leaves no field in the stored object; images become the flag hasImages
\* (message.images && message.images.length > 0 is undefined without images);
\* the timestamp is left out of the model
Storable(m) ==
    [role |-> m.role, parts |-> m.parts]
    @@ (IF "thinking" \in DOMAIN m THEN "thinking" :> m.thinking ELSE <<>>)
    @@ (IF "codeBlocks" \in DOMAIN m
        THEN "codeBlocks" :> [i \in DOMAIN m.codeBlocks |-> StoredBlock(m.codeBlocks[i])]
        ELSE <<>>)
    @@ (IF "images" \in DOMAIN m THEN "hasImages" :> (Len(m.images) > 0) ELSE <<>>)

\* messages.map(...).filter(msg => !msg.isStreaming): the mapped objects carry no
\* isStreaming field, so the filter keeps every one of them
storableMessages(msgs) ==
    LET mapped == [i \in DOMAIN msgs |-> Storable(msgs[i])]
    IN  SelectSeq(mapped, LAMBDA m : ~("isStreaming" \in DOMAIN m /\ m.isStreaming))

\* saveMessages, first write: set(messagesRef, storableMessages)
saveMessagesSet(st, sid, msgs) == [st EXCEPT ![sid].messages = storableMessages(msgs)]

\* the derivation with the limit off by one: a text of exactly TitleLimit characters is cut
DerivedTitleAtLimit(parts) ==
    IF Len(parts) >= TitleLimit THEN SubSeq(parts, 1, TitleLimit) \o Ellipsis ELSE parts

\* saveMessages: the title of the first user message, cut at 30 characters
DerivedTitle(parts) ==
    IF Len(parts) > TitleLimit THEN SubSeq(parts, 1, TitleLimit) \o Ellipsis ELSE parts

\* saveMessages, second write: update(sessionRef, {updatedAt, title}) or {updatedAt}
saveMessagesUpdate(st, sid, msgs, t) ==
    IF Len(msgs) > 0 /\ msgs[1].role = "user"
    THEN [st EXCEPT ![sid].hasUpdatedAt = TRUE, ![sid].updatedAt = t,
                    ![sid].title = DerivedTitle(msgs[1].parts)]
    ELSE [st EXCEPT ![sid].hasUpdatedAt = TRUE, ![sid].updatedAt = t]

\* getMessages: snapshot.val(), or [] when the path does not exist
getMessages(st, sid) == IF sid \in SessionIds THEN st[sid].messages ELSE <<>>

\* one element of Object.values(sessions)
SessionValue(st, k) ==
    [key |-> k,
     id |-> IF st[k].hasId THEN k ELSE NoSession,
     title |-> st[k].title,
     hasUpdatedAt |-> st[k].hasUpdatedAt,
     updatedAt |-> st[k].updatedAt]

Stored(st) == {k \in SessionIds : Exists(st[k])}

Orders(S) ==
    {p \in [1..Cardinality(S) -> S] : \A i, j \in DOMAIN p : i # j => p[i] # p[j]}

\* (a, b) => b.updatedAt - a.updatedAt is NaN when either updatedAt is undefined
Comparable(st, S) == \A k \in S : st[k].hasUpdatedAt

\* the order the comparator asks for between neighbours
Descending(st, p) ==
    \A i \in 1..(Len(p) - 1) : st[p[i]].updatedAt >= st[p[i + 1]].updatedAt

\* getChatSessions: Object.values(sessions).sort(comparator).  With a consistent
\* comparator the result is sorted (ties in key order, and keys are random
\* uuids); with NaN in play the order is implementation-defined.
getChatSessions(st) ==
    LET keyOrders == IF Comparable(st, Stored(st))
                     THEN {p \in Orders(Stored(st)) : Descending(st, p)}
                     ELSE Orders(Stored(st))
    IN  {[i \in DOMAIN p |-> SessionValue(st, p[i])] : p \in keyOrders}

(***************************************************************************)
(* The settings (ChatContainer settings, ChatSettingsPanel) and the model   *)
(***************************************************************************)
ModelIds ==
    {"gemini-1.5-flash", "gemini-1.5-pro", "gemini-1.0-pro", "gemini-1.0-pro-vision",
     "gemini-2.0-flash", "gemini-2.0-flash-lite", "gemini-2.0-pro-experimental-02-05",
     "gemini-2.0-flash-thinking-experimental-01-21"}

\* GEMINI_MODELS: the entries with supportsVision: true
VisionModels ==
    {"gemini-1.5-flash", "gemini-1.5-pro", "gemini-1.0-pro-vision", "gemini-2.0-flash",
     "gemini-2.0-pro-experimental-02-05"}

\* GEMINI_MODELS.find(m => m.id === id)?.supportsVision || false
supportsVision(id) == id \in VisionModels

DefaultInstruction == "default"
Instructions == {DefaultInstruction, "custom"}

DefaultSettings ==
    [model |-> "gemini-1.5-flash", enableCodeExecution |-> FALSE, enableThinking |-> FALSE,
     enableVision |-> TRUE, systemInstruction |-> DefaultInstruction]

\* model.current: null, or the model built by initializeGeminiAPI(apiKey, model, instruction)
NoModel == [model |-> "null", systemInstruction |-> "null"]
ModelFor(st) == [model |-> st.model, systemInstruction |-> st.systemInstruction]

NotInitializedError == "Gemini API not initialized."
InitError == "Failed to initialize Gemini API."

SettingsIdle ==
    /\ settings = DefaultSettings
    /\ modelRef = ModelFor(DefaultSettings)
    /\ initFailed = FALSE

ExecIdle == execPending = <<>> /\ execLog = <<>>

\* onChunk has not been called
NoCall == [called |-> FALSE]

FaultIdle == failedWrites = 0

AssemblyIdle == systemInstructions = <<>>

\* executingCodeIndex is null
NoIndex == 0

BlockIdle == codeBlocks = <<>> /\ executingCodeIndex = NoIndex /\ running = <<>>

\* no file selection has been made
NoUpload == [files |-> <<>>, state |-> <<>>, newImages |-> <<>>, processedFiles |-> 0,
             before |-> <<>>]

ImageIdle == images = <<>> /\ upload = NoUpload

GenIdle ==
    /\ genPc = "idle"
    /\ thinkingResult = Absent
    /\ thinking = Absent
    /\ allCodeBlocks = <<>>
    /\ onChunkCall = NoCall
    /\ thinkingThrew = FALSE
    /\ streamSent = FALSE

(***************************************************************************)
(* The session controller (ChatContainer) and the sidebar (ChatSidebar)    *)
(***************************************************************************)
MaxSends == 2
MaxOps == 3
MaxReplyChunks == 1

SendIds == 1..MaxSends
DigitChar == <<"1","2","3","4","5","6","7","8","9">>

NoError == "null"
CreateError == "Failed to create a new chat session."
GenerateError == "Failed to generate response."

\* what the user typed into the s-th send, and the text its stream has delivered
\* after k chunks (gemini.ts fullResponse)
UserText(s) == <<"q", DigitChar[s]>>
Reply(s, k) == [i \in 1..(2 * k) |-> IF i % 2 = 1 THEN "r" ELSE DigitChar[s]]

\* owner names the send that created a streaming placeholder, 0 for every other message
UserMessage(s) == [role |-> "user", parts |-> UserText(s), isStreaming |-> FALSE, owner |-> 0]
ModelMessage(s) == [role |-> "model", parts |-> <<>>, isStreaming |-> TRUE, owner |-> s]

\* a message read back from the store: it has no isStreaming field
Loaded(m) == [role |-> m.role, parts |-> m.parts, isStreaming |-> FALSE, owner |-> 0]
LoadedList(msgs) == [i \in DOMAIN msgs |-> Loaded(msgs[i])]

IdleSend == [pc |-> "idle", k |-> 0, base |-> <<>>]

\* the save effect: saveMessages(apiKey, currentSessionId, messages) whenever
\* messages or currentSessionId changed, when there is a session and a message
SaveEffect(msgs, sid) ==
    IF sid # NoSession /\ Len(msgs) > 0
    THEN <<Request("setMessages", sid, Absent, msgs, 0, "save", 0)>>
    ELSE <<>>

\* createNewSession up to its await: createChatSession(apiKey, "New Chat")
CreateRequest(cont, who) == Request("create", nextId, NewChatTitle, <<>>, now, cont, who)

SidebarLoading == \E i \in DOMAIN netq : netq[i].op = "list" /\ netq[i].cont = "sidebar"

\* handleSendMessage, up to its first await
handleSendMessage(s) ==
    /\ sends[s].pc = "idle"
    /\ \A r \in SendIds : r < s => sends[r].pc # "idle"
    /\ ~loading
    /\ Room(1)
    /\ IF modelRef = NoModel
       THEN /\ error' = NotInitializedError
            /\ UNCHANGED <<messages, loading, sends, netq, wire, nextId>>
       ELSE IF currentSessionId = NoSession
       THEN /\ nextId <= MaxSessions
            /\ Enqueue(netq, <<CreateRequest("send", s)>>)
            /\ nextId' = nextId + 1
            /\ sends' = [sends EXCEPT ![s] = [pc |-> "creating", k |-> 0,
                                              base |-> Append(messages, UserMessage(s))]]
            /\ UNCHANGED <<messages, loading, error>>
       ELSE /\ messages' = messages \o <<UserMessage(s), ModelMessage(s)>>
            /\ loading' = TRUE
            /\ error' = NoError
            /\ Enqueue(netq, SaveEffect(messages', currentSessionId))
            /\ sends' = [sends EXCEPT ![s] = [pc |-> "streaming", k |-> 0,
                                              base |-> Append(messages, UserMessage(s))]]
            /\ UNCHANGED nextId
    /\ UNCHANGED <<currentSessionId, store, now, sessions, histVars>>
    /\ UNCHANGED extractVars
    /\ UNCHANGED settingsVars
    /\ UNCHANGED execVars
    /\ UNCHANGED genVars
    /\ UNCHANGED faultVars
    /\ UNCHANGED assemblyVars
    /\ UNCHANGED blockVars
    /\ UNCHANGED imageVars

\* the onChunk callback: the last message of the list gets the accumulated text
WithLastParts(msgs, parts) ==
    IF msgs = <<>> THEN msgs ELSE [msgs EXCEPT ![Len(msgs)].parts = parts]

\* the completion step: the last message of the list stops streaming
WithLastDone(msgs) ==
    IF msgs = <<>> THEN msgs ELSE [msgs EXCEPT ![Len(msgs)].isStreaming = FALSE]

\* the failure rollback: updatedMessages.pop()
WithoutLast(msgs) == IF msgs = <<>> THEN msgs ELSE SubSeq(msgs, 1, Len(msgs) - 1)

\* one chunk of the stream of send s arrives
onChunk(s) ==
    /\ sends[s].pc = "streaming"
    /\ sends[s].k < MaxReplyChunks
    /\ messages' = WithLastParts(messages, Reply(s, sends[s].k + 1))
    /\ Room(Len(SaveEffect(messages', currentSessionId)))
    /\ Enqueue(netq, SaveEffect(messages', currentSessionId))
    /\ sends' = [sends EXCEPT ![s].k = @ + 1]
    /\ UNCHANGED <<loading, error, currentSessionId, store, now, nextId, sessions,
                   histVars>>
    /\ UNCHANGED extractVars
    /\ UNCHANGED settingsVars
    /\ UNCHANGED execVars
    /\ UNCHANGED genVars
    /\ UNCHANGED faultVars
    /\ UNCHANGED assemblyVars
    /\ UNCHANGED blockVars
    /\ UNCHANGED imageVars

\* the stream of send s ends: the final onChunk, then "Mark streaming as complete"
streamComplete(s) ==
    /\ sends[s].pc = "streaming"
    /\ messages' = WithLastDone(WithLastParts(messages, Reply(s, sends[s].k)))
    /\ loading' = FALSE
    /\ Room(Len(SaveEffect(messages', currentSessionId)))
    /\ Enqueue(netq, SaveEffect(messages', currentSessionId))
    /\ sends' = [sends EXCEPT ![s].pc = "done"]
    /\ UNCHANGED <<error, currentSessionId, store, now, nextId, sessions,
                   histVars>>
    /\ UNCHANGED extractVars
    /\ UNCHANGED settingsVars
    /\ UNCHANGED execVars
    /\ UNCHANGED genVars
    /\ UNCHANGED faultVars
    /\ UNCHANGED assemblyVars
    /\ UNCHANGED blockVars
    /\ UNCHANGED imageVars

\* generateStreamingChatResponse throws: the catch block of handleSendMessage
streamFailed(s) ==
    /\ sends[s].pc = "streaming"
    /\ messages' = WithoutLast(messages)
    /\ loading' = FALSE
    /\ error' = GenerateError
    /\ Room(Len(SaveEffect(messages', currentSessionId)))
    /\ Enqueue(netq, SaveEffect(messages', currentSessionId))
    /\ sends' = [sends EXCEPT ![s].pc = "failed"]
    /\ UNCHANGED <<currentSessionId, store, now, nextId, sessions, histVars>>
    /\ UNCHANGED extractVars
    /\ UNCHANGED settingsVars
    /\ UNCHANGED execVars
    /\ UNCHANGED genVars
    /\ UNCHANGED faultVars
    /\ UNCHANGED assemblyVars
    /\ UNCHANGED blockVars
    /\ UNCHANGED imageVars

\* the New Chat button: createNewSession up to its await
newChat ==
    /\ nextId <= MaxSessions
    /\ Room(1)
    /\ nOps < MaxOps
    /\ nOps' = nOps + 1
    /\ Enqueue(netq, <<CreateRequest("newSession", 0)>>)
    /\ nextId' = nextId + 1
    /\ UNCHANGED <<chatVars, store, now, sessions, deletedIds, deletedOpen, savedDone>>
    /\ UNCHANGED extractVars
    /\ UNCHANGED settingsVars
    /\ UNCHANGED execVars
    /\ UNCHANGED genVars
    /\ UNCHANGED faultVars
    /\ UNCHANGED assemblyVars
    /\ UNCHANGED blockVars
    /\ UNCHANGED imageVars

\* the sidebar opens: loadSessions up to its await
loadSessions ==
    /\ Room(1)
    /\ nOps < MaxOps
    /\ nOps' = nOps + 1
    /\ Enqueue(netq, <<Request("list", NoSession, Absent, <<>>, 0, "sidebar", 0)>>)
    /\ UNCHANGED <<chatVars, store, now, nextId, sessions, deletedIds, deletedOpen, savedDone>>
    /\ UNCHANGED extractVars
    /\ UNCHANGED settingsVars
    /\ UNCHANGED execVars
    /\ UNCHANGED genVars
    /\ UNCHANGED faultVars
    /\ UNCHANGED assemblyVars
    /\ UNCHANGED blockVars
    /\ UNCHANGED imageVars

\* a click on the i-th entry of the sidebar: loadSession up to its await
loadSession(i) ==
    /\ i \in DOMAIN sessions
    /\ sessions[i].id # NoSession
    /\ ~SidebarLoading
    /\ Room(1)
    /\ nOps < MaxOps
    /\ nOps' = nOps + 1
    /\ Enqueue(netq, <<Request("getMessages", sessions[i].id, Absent, <<>>, 0, "load", 0)>>)
    /\ UNCHANGED <<chatVars, store, now, nextId, sessions, deletedIds, deletedOpen, savedDone>>
    /\ UNCHANGED extractVars
    /\ UNCHANGED settingsVars
    /\ UNCHANGED execVars
    /\ UNCHANGED genVars
    /\ UNCHANGED faultVars
    /\ UNCHANGED assemblyVars
    /\ UNCHANGED blockVars
    /\ UNCHANGED imageVars

\* the delete button of the i-th entry: handleDeleteSession up to its await.  The
\* handler keeps the sessions and the currentSessionId it was rendered with.
handleDeleteSession(i) ==
    /\ i \in DOMAIN sessions
    /\ sessions[i].id # NoSession
    /\ ~SidebarLoading
    /\ Room(1)
    /\ nOps < MaxOps
    /\ nOps' = nOps + 1
    /\ Enqueue(netq, <<Request("remove", sessions[i].id, Absent, sessions, 0, "deleted",
                               IF sessions[i].id = currentSessionId THEN 1 ELSE 0)>>)
    /\ UNCHANGED <<chatVars, store, now, nextId, sessions, deletedIds, deletedOpen, savedDone>>
    /\ UNCHANGED extractVars
    /\ UNCHANGED settingsVars
    /\ UNCHANGED execVars
    /\ UNCHANGED genVars
    /\ UNCHANGED faultVars
    /\ UNCHANGED assemblyVars
    /\ UNCHANGED blockVars
    /\ UNCHANGED imageVars

\* the title of the i-th entry is edited and confirmed: saveEditedTitle up to its
\* await.  The handler keeps the sessions it was rendered with.
saveEditedTitle(i, title) ==
    /\ i \in DOMAIN sessions
    /\ sessions[i].id # NoSession
    /\ trim(title) # <<>>
    /\ ~SidebarLoading
    /\ Room(1)
    /\ nOps < MaxOps
    /\ nOps' = nOps + 1
    /\ Enqueue(netq, <<Request("rename", sessions[i].id, title, sessions, now, "renamed", 0)>>)
    /\ UNCHANGED <<chatVars, store, now, nextId, sessions, deletedIds, deletedOpen, savedDone>>
    /\ UNCHANGED extractVars
    /\ UNCHANGED settingsVars
    /\ UNCHANGED execVars
    /\ UNCHANGED genVars
    /\ UNCHANGED faultVars
    /\ UNCHANGED assemblyVars
    /\ UNCHANGED blockVars
    /\ UNCHANGED imageVars

\* time passes
Tick ==
    /\ now < MaxClock
    /\ now' = now + 1
    /\ UNCHANGED <<store, nextId, netq, wire, sessions, chatVars, histVars>>
    /\ UNCHANGED extractVars
    /\ UNCHANGED settingsVars
    /\ UNCHANGED execVars
    /\ UNCHANGED genVars
    /\ UNCHANGED faultVars
    /\ UNCHANGED assemblyVars
    /\ UNCHANGED blockVars
    /\ UNCHANGED imageVars

(***************************************************************************)
(* The store answers the oldest request; the code after the await runs     *)
(***************************************************************************)
Pending(op) == netq # <<>> /\ Head(netq).op = op

\* createChatSession resolves; createNewSession sets the state, and a send that
\* waited for it goes on to append its two messages
respondCreate ==
    /\ Pending("create")
    /\ LET r == Head(netq) IN
       /\ store' = createChatSession(store, r.sid, r.title, r.t)
       /\ CASE r.cont = "newSession" ->
                 /\ messages' = <<>>
                 /\ currentSessionId' = r.sid
                 /\ Enqueue(Tail(netq), <<>>)
                 /\ UNCHANGED <<loading, error, sends>>
            [] r.cont = "send" ->
                 /\ messages' = <<UserMessage(r.who), ModelMessage(r.who)>>
                 /\ currentSessionId' = r.sid
                 /\ loading' = TRUE
                 /\ error' = NoError
                 /\ sends' = [sends EXCEPT ![r.who].pc = "streaming"]
                 /\ Enqueue(Tail(netq), SaveEffect(messages', r.sid))
            [] OTHER ->
                 /\ Enqueue(Tail(netq), <<>>)
                 /\ UNCHANGED chatVars
    /\ UNCHANGED <<now, nextId, sessions, histVars>>
    /\ UNCHANGED extractVars
    /\ UNCHANGED settingsVars
    /\ UNCHANGED execVars
    /\ UNCHANGED genVars
    /\ UNCHANGED faultVars
    /\ UNCHANGED assemblyVars
    /\ UNCHANGED blockVars
    /\ UNCHANGED imageVars

\* saveMessages: the set of the messages resolves, the update of the session goes out
respondSetMessages ==
    /\ Pending("setMessages")
    /\ LET r == Head(netq) IN
       /\ store' = saveMessagesSet(store, r.sid, r.msgs)
       /\ savedDone' = [savedDone EXCEPT ![r.sid] = [i \in DOMAIN r.msgs |-> ~r.msgs[i].isStreaming]]
       /\ Enqueue(Tail(netq), <<Request("update", r.sid, Absent, r.msgs, now, r.cont, 0)>>)
    /\ UNCHANGED <<now, nextId, sessions, chatVars, deletedIds, deletedOpen, nOps>>
    /\ UNCHANGED extractVars
    /\ UNCHANGED settingsVars
    /\ UNCHANGED execVars
    /\ UNCHANGED genVars
    /\ UNCHANGED faultVars
    /\ UNCHANGED assemblyVars
    /\ UNCHANGED blockVars
    /\ UNCHANGED imageVars

\* saveMessages: the update of updatedAt and title resolves
respondUpdate ==
    /\ Pending("update")
    /\ LET r == Head(netq) IN
       /\ store' = saveMessagesUpdate(store, r.sid, r.msgs, r.t)
       /\ Enqueue(Tail(netq), <<>>)
    /\ UNCHANGED <<now, nextId, sessions, chatVars, histVars>>
    /\ UNCHANGED extractVars
    /\ UNCHANGED settingsVars
    /\ UNCHANGED execVars
    /\ UNCHANGED genVars
    /\ UNCHANGED faultVars
    /\ UNCHANGED assemblyVars
    /\ UNCHANGED blockVars
    /\ UNCHANGED imageVars

\* updateChatSessionTitle resolves
\* saveEditedTitle after its await: the entry of the session shows the new title
Retitled(entries, sid, title) ==
    [j \in DOMAIN entries |->
        IF entries[j].id = sid THEN [entries[j] EXCEPT !.title = title] ELSE entries[j]]

respondRename ==
    /\ Pending("rename")
    /\ LET r == Head(netq) IN
       /\ store' = updateChatSessionTitle(store, r.sid, r.title, r.t)
       /\ sessions' = IF r.cont = "renamed" THEN Retitled(r.msgs, r.sid, r.title)
                                             ELSE sessions
       /\ Enqueue(Tail(netq), <<>>)
    /\ UNCHANGED <<now, nextId, chatVars, histVars>>
    /\ UNCHANGED extractVars
    /\ UNCHANGED settingsVars
    /\ UNCHANGED execVars
    /\ UNCHANGED genVars
    /\ UNCHANGED faultVars
    /\ UNCHANGED assemblyVars
    /\ UNCHANGED blockVars
    /\ UNCHANGED imageVars

\* deleteChatSession resolves; handleDeleteSession filters its list and, when the
\* deleted session was the current one, calls createNewSession
respondRemove ==
    /\ Pending("remove")
    /\ LET r == Head(netq) IN
       /\ store' = deleteChatSession(store, r.sid)
       /\ deletedIds' = deletedIds \cup {r.sid}
       /\ deletedOpen' = IF r.who = 1 THEN deletedOpen \cup {r.sid} ELSE deletedOpen
       /\ savedDone' = [savedDone EXCEPT ![r.sid] = <<>>]
       /\ IF r.cont = "deleted"
          THEN /\ sessions' = SelectSeq(r.msgs, LAMBDA e : e.id # r.sid)
               /\ IF r.who = 1
                  THEN /\ nextId <= MaxSessions
                       /\ Enqueue(Tail(netq), <<CreateRequest("newSession", 0)>>)
                       /\ nextId' = nextId + 1
                  ELSE /\ Enqueue(Tail(netq), <<>>)
                       /\ UNCHANGED nextId
          ELSE /\ Enqueue(Tail(netq), <<>>)
               /\ UNCHANGED <<sessions, nextId>>
    /\ UNCHANGED <<now, chatVars, nOps>>
    /\ UNCHANGED extractVars
    /\ UNCHANGED settingsVars
    /\ UNCHANGED execVars
    /\ UNCHANGED genVars
    /\ UNCHANGED faultVars
    /\ UNCHANGED assemblyVars
    /\ UNCHANGED blockVars
    /\ UNCHANGED imageVars

\* what the callers do with the list getChatSessions returned: the sidebar shows it;
\* initializeSession loads the first session of it, or creates one when it is empty
listSettles(result) ==
    LET r == Head(netq) IN
    IF r.cont = "init"
    THEN /\ IF Len(result) > 0
            THEN /\ Enqueue(Tail(netq), <<Request("getMessages", result[1].id, Absent, <<>>,
                                                  0, "init", r.who)>>)
                 /\ UNCHANGED nextId
            ELSE /\ nextId <= MaxSessions
                 /\ Enqueue(Tail(netq), <<CreateRequest("newSession", r.who)>>)
                 /\ nextId' = nextId + 1
         /\ UNCHANGED sessions
    ELSE /\ sessions' = result
         /\ Enqueue(Tail(netq), <<>>)
         /\ UNCHANGED nextId

\* getChatSessions resolves with the stored sessions
respondList ==
    /\ Pending("list")
    /\ \E result \in getChatSessions(store) : listSettles(result)
    /\ UNCHANGED <<store, now, chatVars, histVars>>
    /\ UNCHANGED extractVars
    /\ UNCHANGED settingsVars
    /\ UNCHANGED execVars
    /\ UNCHANGED genVars
    /\ UNCHANGED faultVars
    /\ UNCHANGED assemblyVars
    /\ UNCHANGED blockVars
    /\ UNCHANGED imageVars

\* the read of getChatSessions fails: its catch returns []
listFails ==
    /\ Pending("list")
    /\ listSettles(<<>>)
    /\ UNCHANGED <<store, now, chatVars, histVars>>
    /\ UNCHANGED extractVars
    /\ UNCHANGED settingsVars
    /\ UNCHANGED execVars
    /\ UNCHANGED genVars
    /\ UNCHANGED faultVars
    /\ UNCHANGED assemblyVars
    /\ UNCHANGED blockVars
    /\ UNCHANGED imageVars

\* what loadSession and initializeSession do with the list getMessages returned
getMessagesSettles(msgs) ==
    LET r == Head(netq) IN
    IF r.cont \in {"load", "init"}
    THEN /\ messages' = LoadedList(msgs)
         /\ currentSessionId' = r.sid
         /\ Enqueue(Tail(netq), SaveEffect(messages', r.sid))
         /\ UNCHANGED <<loading, error, sends>>
    ELSE /\ Enqueue(Tail(netq), <<>>)
         /\ UNCHANGED chatVars

\* getMessages resolves with the stored list
respondGetMessages ==
    /\ Pending("getMessages")
    /\ getMessagesSettles(getMessages(store, Head(netq).sid))
    /\ UNCHANGED <<store, now, nextId, sessions, histVars>>
    /\ UNCHANGED extractVars
    /\ UNCHANGED settingsVars
    /\ UNCHANGED execVars
    /\ UNCHANGED genVars
    /\ UNCHANGED faultVars
    /\ UNCHANGED assemblyVars
    /\ UNCHANGED blockVars
    /\ UNCHANGED imageVars

\* the read of getMessages fails: its catch returns []
getMessagesFails ==
    /\ Pending("getMessages")
    /\ getMessagesSettles(<<>>)
    /\ UNCHANGED <<store, now, nextId, sessions, histVars>>
    /\ UNCHANGED extractVars
    /\ UNCHANGED settingsVars
    /\ UNCHANGED execVars
    /\ UNCHANGED genVars
    /\ UNCHANGED faultVars
    /\ UNCHANGED assemblyVars
    /\ UNCHANGED blockVars
    /\ UNCHANGED imageVars

MaxFailures == 2

\* a store write is rejected: the request is answered and nothing is stored
Rejected(op) ==
    /\ Pending(op)
    /\ failedWrites < MaxFailures
    /\ failedWrites' = failedWrites + 1
    /\ UNCHANGED <<store, now, nextId, sessions, histVars>>
    /\ UNCHANGED extractVars
    /\ UNCHANGED settingsVars
    /\ UNCHANGED execVars
    /\ UNCHANGED genVars
    /\ UNCHANGED assemblyVars
    /\ UNCHANGED blockVars
    /\ UNCHANGED imageVars

\* ErrorAfterCreateFails if createNewSession only logged the rejection
ErrorKeptAfterCreateFails(prior) == prior

\* what a rejected createChatSession leaves in chatState.error: the catch of
\* createNewSession sets the message
ErrorAfterCreateFails(prior) == CreateError

\* createChatSession rejects: the catch of createNewSession; a send that awaited
\* it goes on without a session
createFails ==
    /\ Rejected("create")
    /\ LET r == Head(netq) IN
       CASE r.cont = "newSession" ->
                 /\ error' = ErrorAfterCreateFails(error)
                 /\ Enqueue(Tail(netq), <<>>)
                 /\ UNCHANGED <<messages, loading, currentSessionId, sends>>
         [] r.cont = "send" ->
                 /\ messages' = messages \o <<UserMessage(r.who), ModelMessage(r.who)>>
                 /\ loading' = TRUE
                 /\ error' = NoError
                 /\ sends' = [sends EXCEPT ![r.who].pc = "streaming"]
                 /\ Enqueue(Tail(netq), SaveEffect(messages', currentSessionId))
                 /\ UNCHANGED currentSessionId
         [] OTHER ->
                 /\ Enqueue(Tail(netq), <<>>)
                 /\ UNCHANGED chatVars

\* set() of saveMessages rejects: saveMessages rejects before its update, and the
\* save effect does not look at the promise
setMessagesFails ==
    /\ Rejected("setMessages")
    /\ Enqueue(Tail(netq), <<>>)
    /\ UNCHANGED chatVars

\* update() of saveMessages rejects
updateFails ==
    /\ Rejected("update")
    /\ Enqueue(Tail(netq), <<>>)
    /\ UNCHANGED chatVars

\* updateChatSessionTitle rejects: the catch of saveEditedTitle logs
renameFails ==
    /\ Rejected("rename")
    /\ Enqueue(Tail(netq), <<>>)
    /\ UNCHANGED chatVars

\* deleteChatSession rejects: the catch of handleDeleteSession logs
removeFails ==
    /\ Rejected("remove")
    /\ Enqueue(Tail(netq), <<>>)
    /\ UNCHANGED chatVars

(***************************************************************************)
(* The chat: ChatContainer mounted on a store left by earlier visits       *)
(***************************************************************************)
EmptyStore == [k \in SessionIds |-> NoNode]

\* an exchange finished on an earlier visit
EarlierMessages == << [role |-> "user", parts |-> <<"h","i">>],
                      [role |-> "model", parts |-> <<"y","o">>] >>

EarlierStore ==
    [EmptyStore EXCEPT ![1] = [hasId |-> TRUE, title |-> <<"h","i">>, hasUpdatedAt |-> TRUE,
                               updatedAt |-> 0, messages |-> EarlierMessages]]

ExtractIdle == text = <<>> /\ fences = <<>> /\ nParts = 0

StoreIdle ==
    /\ store = EmptyStore
    /\ now = 0
    /\ nextId = 1
    /\ netq = <<>>
    /\ wire = {}
    /\ sessions = <<>>

HistIdle ==
    /\ deletedIds = {}
    /\ deletedOpen = {}
    /\ savedDone = [k \in SessionIds |-> <<>>]
    /\ nOps = 0

ChatIdle ==
    /\ messages = <<>>
    /\ loading = FALSE
    /\ error = NoError
    /\ currentSessionId = NoSession
    /\ sends = [s \in SendIds |-> IdleSend]

\* the state after the mount effect: the model is initialized and
\* initializeSession waits for getChatSessions
Init ==
    /\ ExtractIdle
    /\ ChatIdle
    /\ ExecIdle
    /\ GenIdle
    /\ FaultIdle
    /\ AssemblyIdle
    /\ BlockIdle
    /\ ImageIdle
    /\ SettingsIdle
    /\ \/ store = EmptyStore /\ nextId = 1 /\ savedDone = [k \in SessionIds |-> <<>>]
       \/ /\ store = EarlierStore
          /\ nextId = 2
          /\ savedDone = [k \in SessionIds |-> IF k = 1 THEN <<TRUE, TRUE>> ELSE <<>>]
    /\ now = 0
    /\ netq = <<Request("list", NoSession, Absent, <<>>, 0, "init", 0)>>
    /\ wire = {Carried("list")}
    /\ sessions = <<>>
    /\ deletedIds = {}
    /\ deletedOpen = {}
    /\ nOps = 0

\* the store answers
Respond ==
    \/ respondCreate
    \/ respondSetMessages
    \/ respondUpdate
    \/ respondList
    \/ respondGetMessages

\* the user sends messages, one after the other or before the first has appeared,
\* and the streams deliver; the sidebar stays closed
SendsNext ==
    \/ \E s \in SendIds : handleSendMessage(s)
    \/ \E s \in SendIds : onChunk(s)
    \/ \E s \in SendIds : streamComplete(s)
    \/ \E s \in SendIds : streamFailed(s)
    \/ Respond

\* the user sends one message and works with the sidebar and the New Chat button
SidebarNext ==
    \/ handleSendMessage(1)
    \/ onChunk(1)
    \/ streamComplete(1)
    \/ streamFailed(1)
    \/ newChat
    \/ loadSessions
    \/ \E i \in 1..MaxSessions : loadSession(i)
    \/ \E i \in 1..MaxSessions : handleDeleteSession(i)
    \/ Tick
    \/ respondRemove
    \/ Respond

SpecSends == Init /\ [][SendsNext]_vars

SpecSidebar == Init /\ [][SidebarNext]_vars

(***************************************************************************)
(* The settings panel: every handler builds the new settings from the ones *)
(* it was rendered with and hands them to handleSettingsChange             *)
(***************************************************************************)
\* handleModelChange: the vision switch kept only when the new model supports vision
VisionKeptAlways(newModel, prior) == prior

VisionAfterModelChange(newModel, prior) == IF supportsVision(newModel) THEN prior ELSE FALSE

\* handleSettingsChange, and the mount effect that runs again when the model or the
\* system instruction changed: initializeGeminiAPI is called with the new
\* configuration (it returns a model or throws), and initializeSession starts over
\* requests of an initializeSession started by a re-run of the mount effect
\* (a change of settings.model or settings.systemInstruction) carry this caller
EffectRerun == MaxSends + 1

handleSettingsChange(newSettings) ==
    /\ nOps < MaxOps
    /\ nOps' = nOps + 1
    /\ settings' = newSettings
    /\ IF \/ newSettings.model # settings.model
          \/ newSettings.systemInstruction # settings.systemInstruction
       THEN /\ Room(1)
            /\ \E ok \in BOOLEAN :
                  /\ initFailed' = ~ok
                  /\ modelRef' = IF ok THEN ModelFor(newSettings) ELSE modelRef
                  /\ error' = IF ok THEN error ELSE InitError
            /\ Enqueue(netq, <<Request("list", NoSession, Absent, <<>>, 0, "init", EffectRerun)>>)
       ELSE UNCHANGED <<modelRef, initFailed, error, netq, wire>>
    /\ UNCHANGED <<messages, loading, currentSessionId, sends, store, now, nextId, sessions,
                   deletedIds, deletedOpen, savedDone, extractVars>>
    /\ UNCHANGED execVars
    /\ UNCHANGED genVars
    /\ UNCHANGED faultVars
    /\ UNCHANGED assemblyVars
    /\ UNCHANGED blockVars
    /\ UNCHANGED imageVars

handleModelChange(newModel) ==
    /\ newModel \in ModelIds
    /\ handleSettingsChange([settings EXCEPT
        !.model = newModel,
        !.enableVision = VisionAfterModelChange(newModel, settings.enableVision)])

handleToggleCodeExecution ==
    handleSettingsChange([settings EXCEPT !.enableCodeExecution = ~settings.enableCodeExecution])

handleToggleThinking ==
    handleSettingsChange([settings EXCEPT !.enableThinking = ~settings.enableThinking])

\* the vision switch is disabled while the selected model has no vision support
handleToggleVision ==
    /\ supportsVision(settings.model)
    /\ handleSettingsChange([settings EXCEPT !.enableVision = ~settings.enableVision])

\* Save in the system-instruction editor, and its Reset button
handleSystemInstructionSave(instruction) ==
    /\ instruction \in Instructions
    /\ handleSettingsChange([settings EXCEPT !.systemInstruction = instruction])

handleSystemInstructionReset ==
    handleSettingsChange([settings EXCEPT !.systemInstruction = DefaultInstruction])

\* the mount effect: initializeModelWithApiKey succeeded, or threw and left
\* model.current null with the error banner set
MountedSettings ==
    /\ settings = DefaultSettings
    /\ \/ modelRef = ModelFor(DefaultSettings) /\ initFailed = FALSE /\ error = NoError
       \/ modelRef = NoModel /\ initFailed = TRUE /\ error = InitError

SettingsInit ==
    /\ ExtractIdle
    /\ ExecIdle
    /\ GenIdle
    /\ FaultIdle
    /\ AssemblyIdle
    /\ BlockIdle
    /\ ImageIdle
    /\ messages = <<>>
    /\ loading = FALSE
    /\ currentSessionId = NoSession
    /\ sends = [s \in SendIds |-> IdleSend]
    /\ MountedSettings
    /\ \/ store = EmptyStore /\ nextId = 1 /\ savedDone = [k \in SessionIds |-> <<>>]
       \/ /\ store = EarlierStore
          /\ nextId = 2
          /\ savedDone = [k \in SessionIds |-> IF k = 1 THEN <<TRUE, TRUE>> ELSE <<>>]
    /\ now = 0
    /\ netq = <<Request("list", NoSession, Absent, <<>>, 0, "init", 0)>>
    /\ wire = {Carried("list")}
    /\ sessions = <<>>
    /\ deletedIds = {}
    /\ deletedOpen = {}
    /\ nOps = 0

\* the user works with the settings panel; the store answers initializeSession
PanelNext ==
    \/ \E m \in ModelIds : handleModelChange(m)
    \/ handleToggleCodeExecution
    \/ handleToggleThinking
    \/ handleToggleVision
    \/ \E t \in Instructions : handleSystemInstructionSave(t)
    \/ handleSystemInstructionReset
    \/ Respond

SpecPanel == SettingsInit /\ [][PanelNext]_vars

\* the models the user switches between while chatting: one with vision, one without
SwitchModels == {"gemini-1.5-pro", "gemini-1.0-pro"}

\* the user switches the model, sends one message and deletes sessions in the sidebar
SettingsNext ==
    \/ \E m \in SwitchModels : handleModelChange(m)
    \/ handleSendMessage(1)
    \/ onChunk(1)
    \/ streamComplete(1)
    \/ streamFailed(1)
    \/ loadSessions
    \/ \E i \in 1..MaxSessions : handleDeleteSession(i)
    \/ respondRemove
    \/ Respond

SpecSettings == SettingsInit /\ [][SettingsNext]_vars

\* the user sends one message while the reads of initializeSession may fail
ReadFailNext ==
    \/ handleSendMessage(1)
    \/ onChunk(1)
    \/ streamComplete(1)
    \/ streamFailed(1)
    \/ listFails
    \/ getMessagesFails
    \/ Respond

SpecReadFail == Init /\ [][ReadFailNext]_vars

\* the title the user types for a session
UserTitle == <<"M","y",SP,"c","h","a","t">>

WriteFailNext ==
    \/ handleSendMessage(1)
    \/ onChunk(1)
    \/ streamComplete(1)
    \/ newChat
    \/ loadSessions
    \/ \E i \in 1..MaxSessions : saveEditedTitle(i, UserTitle)
    \/ \E i \in 1..MaxSessions : handleDeleteSession(i)
    \/ respondRename
    \/ respondRemove
    \/ Respond
    \/ createFails
    \/ setMessagesFails
    \/ updateFails
    \/ renameFails
    \/ removeFails

SpecWriteFail == Init /\ [][WriteFailNext]_vars

\* two sends, with session creations that can be rejected
SendsFailNext ==
    \/ \E s \in SendIds : handleSendMessage(s)
    \/ \E s \in SendIds : onChunk(s)
    \/ \E s \in SendIds : streamComplete(s)
    \/ \E s \in SendIds : streamFailed(s)
    \/ Respond
    \/ createFails

SpecSendsFail == Init /\ [][SendsFailNext]_vars

(***************************************************************************)
(* The store client on its own: the exported functions of firebase.ts      *)
(* called with sessions and message lists of every shape the chat passes   *)
(***************************************************************************)
MaxApiSessions == 2

ApiSessionIds == 1..MaxApiSessions

\* a text of n characters in which every position can be told from its neighbours
LongText(n) == [i \in 1..n |-> LowerCase[((i - 1) % 26) + 1]]

TextLengths == {1} \cup ((TitleLimit - 1)..(TitleLimit + TextSlack))

UserSaid(parts) == [role |-> "user", parts |-> parts, isStreaming |-> FALSE, owner |-> 0]
ModelSaid(parts, streaming) ==
    [role |-> "model", parts |-> parts, isStreaming |-> streaming, owner |-> 0]

\* a reply with its thinking and a code block that was run, still streaming
RichReply ==
    [role |-> "model", parts |-> <<"r">>, isStreaming |-> TRUE, owner |-> 0,
     thinking |-> <<"t">>,
     codeBlocks |-> <<[language |-> "python", code |-> <<"x">>,
                       executionResult |-> <<"1">>, executionStatus |-> "success"]>>]

\* a user message with an attached image, and one whose attachments were all removed
WithImages(parts, attached) ==
    [role |-> "user", parts |-> parts, isStreaming |-> FALSE, owner |-> 0, images |-> attached]

Picture == [dataUrl |-> "data:image/png;base64,AAAA", mimeType |-> "image/png"]

\* the lists saveMessages is called with: empty, a first user message of every
\* length around the limit, a list that starts with a reply, a reply in progress,
\* messages with images, thinking and code blocks
SaveInputs ==
    {<<>>}
    \cup {<<UserSaid(LongText(n))>> : n \in TextLengths}
    \cup {<<ModelSaid(LongText(TitleLimit + 1), FALSE)>>}
    \cup {<<UserSaid(LongText(TitleLimit + 1)), ModelSaid(<<"r">>, TRUE)>>}
    \cup {<<WithImages(<<"q">>, <<Picture>>), RichReply>>}
    \cup {<<WithImages(<<"q">>, <<>>)>>}

ApiCall(req) ==
    /\ Room(1)
    /\ nOps < MaxOps
    /\ nOps' = nOps + 1
    /\ Enqueue(netq, <<req>>)

\* createChatSession(apiKey, "New Chat")
callCreateChatSession(sid) ==
    /\ sid = nextId
    /\ ApiCall(Request("create", sid, NewChatTitle, <<>>, now, "api", 0))
    /\ nextId' = nextId + 1
    /\ UNCHANGED <<store, now, sessions, chatVars, deletedIds, deletedOpen, savedDone, extractVars>>
    /\ UNCHANGED settingsVars
    /\ UNCHANGED execVars
    /\ UNCHANGED genVars
    /\ UNCHANGED faultVars
    /\ UNCHANGED assemblyVars
    /\ UNCHANGED blockVars
    /\ UNCHANGED imageVars

\* saveMessages(apiKey, sid, msgs) for a session id handed out earlier
callSaveMessages(sid, msgs) ==
    /\ sid < nextId
    /\ ApiCall(Request("setMessages", sid, Absent, msgs, 0, "api", 0))
    /\ UNCHANGED <<store, now, nextId, sessions, chatVars, deletedIds, deletedOpen, savedDone, extractVars>>
    /\ UNCHANGED settingsVars
    /\ UNCHANGED execVars
    /\ UNCHANGED genVars
    /\ UNCHANGED faultVars
    /\ UNCHANGED assemblyVars
    /\ UNCHANGED blockVars
    /\ UNCHANGED imageVars

\* updateChatSessionTitle(apiKey, sid, title)
callUpdateChatSessionTitle(sid) ==
    /\ sid < nextId
    /\ ApiCall(Request("rename", sid, UserTitle, <<>>, now, "api", 0))
    /\ UNCHANGED <<store, now, nextId, sessions, chatVars, deletedIds, deletedOpen, savedDone, extractVars>>
    /\ UNCHANGED settingsVars
    /\ UNCHANGED execVars
    /\ UNCHANGED genVars
    /\ UNCHANGED faultVars
    /\ UNCHANGED assemblyVars
    /\ UNCHANGED blockVars
    /\ UNCHANGED imageVars

\* deleteChatSession(apiKey, sid)
callDeleteChatSession(sid) ==
    /\ sid < nextId
    /\ ApiCall(Request("remove", sid, Absent, <<>>, 0, "api", 0))
    /\ UNCHANGED <<store, now, nextId, sessions, chatVars, deletedIds, deletedOpen, savedDone, extractVars>>
    /\ UNCHANGED settingsVars
    /\ UNCHANGED execVars
    /\ UNCHANGED genVars
    /\ UNCHANGED faultVars
    /\ UNCHANGED assemblyVars
    /\ UNCHANGED blockVars
    /\ UNCHANGED imageVars

\* getChatSessions(apiKey)
callGetChatSessions ==
    /\ ApiCall(Request("list", NoSession, Absent, <<>>, 0, "api", 0))
    /\ UNCHANGED <<store, now, nextId, sessions, chatVars, deletedIds, deletedOpen, savedDone, extractVars>>
    /\ UNCHANGED settingsVars
    /\ UNCHANGED execVars
    /\ UNCHANGED genVars
    /\ UNCHANGED faultVars
    /\ UNCHANGED assemblyVars
    /\ UNCHANGED blockVars
    /\ UNCHANGED imageVars

StoreInit == ExtractIdle /\ ChatIdle /\ StoreIdle /\ HistIdle /\ SettingsIdle /\ ExecIdle
    /\ GenIdle
    /\ FaultIdle
    /\ AssemblyIdle
    /\ BlockIdle
    /\ ImageIdle

StoreNext ==
    \/ \E sid \in ApiSessionIds : callCreateChatSession(sid)
    \/ \E sid \in ApiSessionIds, msgs \in SaveInputs : callSaveMessages(sid, msgs)
    \/ \E sid \in ApiSessionIds : callUpdateChatSessionTitle(sid)
    \/ \E sid \in ApiSessionIds : callDeleteChatSession(sid)
    \/ callGetChatSessions
    \/ Tick
    \/ respondCreate
    \/ respondSetMessages
    \/ respondUpdate
    \/ respondRename
    \/ respondRemove
    \/ respondList

SpecStore == StoreInit /\ [][StoreNext]_vars

(***************************************************************************)
(* Documents and streams fed to extractCodeBlocks                          *)
(***************************************************************************)
MaxParts == 3
MaxChunks == 6

Fence == <<BT, BT, BT>>

\* language tags a markdown fence can carry: none, Python, c++
Tags == { <<>>, <<"P","y">>, <<"c","+","+">> }

\* the tags made of word characters only
WordTags == {t \in Tags : \A i \in DOMAIN t : IsWordChar(t[i])}

\* fence bodies; the second is the body of the fence in "Sure:\n```python\nprint("hi")\n```\n"
Bodies == { <<>>,
            <<"p","r","i","n","t","(","'","h","i","'",")",NL>>,
            <<SP,"X",NL,"y",SP,NL>> }

Prose == { <<"S","u","r","e",":",NL>>, <<NL>>, <<BT,"x",BT,SP>> }

\* one complete fenced region: opening fence, optional tag, newline, body, closing fence
FencedRegion(tag, body) == Fence \o tag \o <<NL>> \o body \o Fence

WriteProse(p) ==
    /\ nParts < MaxParts
    /\ text' = text \o p
    /\ nParts' = nParts + 1
    /\ UNCHANGED fences
    /\ UNCHANGED <<storeVars, chatVars, histVars>>
    /\ UNCHANGED settingsVars
    /\ UNCHANGED execVars
    /\ UNCHANGED genVars
    /\ UNCHANGED faultVars
    /\ UNCHANGED assemblyVars
    /\ UNCHANGED blockVars
    /\ UNCHANGED imageVars

WriteFence(tag, body) ==
    /\ nParts < MaxParts
    /\ text' = text \o FencedRegion(tag, body)
    /\ fences' = Append(fences, [tag |-> tag, body |-> body])
    /\ nParts' = nParts + 1
    /\ UNCHANGED <<storeVars, chatVars, histVars>>
    /\ UNCHANGED settingsVars
    /\ UNCHANGED execVars
    /\ UNCHANGED genVars
    /\ UNCHANGED faultVars
    /\ UNCHANGED assemblyVars
    /\ UNCHANGED blockVars
    /\ UNCHANGED imageVars

\* the pieces a generation stream delivers: text is split at arbitrary places,
\* so a fence can arrive whole or one backtick at a time
Chunks == { Fence, <<BT>>, <<NL>>, <<"A">>, <<SP>>, <<"+">> }

\* gemini.ts: fullResponse += chunkText
Receive(chunk) ==
    /\ nParts < MaxChunks
    /\ text' = text \o chunk
    /\ nParts' = nParts + 1
    /\ UNCHANGED fences
    /\ UNCHANGED <<storeVars, chatVars, histVars>>
    /\ UNCHANGED settingsVars
    /\ UNCHANGED execVars
    /\ UNCHANGED genVars
    /\ UNCHANGED faultVars
    /\ UNCHANGED assemblyVars
    /\ UNCHANGED blockVars
    /\ UNCHANGED imageVars

ExtractInit == ExtractIdle /\ ChatIdle /\ StoreIdle /\ HistIdle /\ SettingsIdle /\ ExecIdle
    /\ GenIdle
    /\ FaultIdle
    /\ AssemblyIdle
    /\ BlockIdle
    /\ ImageIdle

FencesNext ==
    \/ \E p \in Prose : WriteProse(p)
    \/ \E t \in Tags, b \in Bodies : WriteFence(t, b)

StreamNext == \E c \in Chunks : Receive(c)

SpecFences == ExtractInit /\ [][FencesNext]_vars

SpecStream == ExtractInit /\ [][StreamNext]_vars

(***************************************************************************)
(* The execution stub (gemini.ts executeCode) and the Run Code button      *)
(***************************************************************************)
MaxRuns == 2

Quotes == {"'", "\""}

\* . matches every character but a line terminator
IsLineEnd(c) == c \in {"\n", "\r"}

\* code.includes(pat)
Includes(code, pat) ==
    \E i \in 1..(Len(code) - Len(pat) + 1) : SubSeq(code, i, i + Len(pat) - 1) = pat

\* the places where name(' or name(" starts
CallStarts(code, name) ==
    {i \in 1..Len(code) :
        /\ i + Len(name) + 1 <= Len(code)
        /\ SubSeq(code, i, i + Len(name)) = name \o <<"(">>
        /\ code[i + Len(name) + 1] \in Quotes}

\* for a call whose argument starts at b: the places of a closing quote followed by ")"
\* with no line terminator between b and the quote
CallEnds(code, b) ==
    {j \in b..(Len(code) - 1) :
        /\ code[j] \in Quotes
        /\ code[j + 1] = ")"
        /\ \A k \in b..(j - 1) : ~IsLineEnd(code[k])}

Least(S) == CHOOSE x \in S : \A y \in S : x <= y
Greatest(S) == CHOOSE x \in S : \A y \in S : x >= y

\* a regex object that keeps its position: after a call that matched, the next search
\* starts behind the end of the text and finds nothing
CallMatchSticky(code, name) ==
    IF execLog # <<>> /\ execLog[Len(execLog)].result.text # <<>>
    THEN [ok |-> FALSE, group |-> <<>>]
    ELSE LET starts == {i \in CallStarts(code, name) :
                            CallEnds(code, i + Len(name) + 2) # {}}
         IN  IF starts = {} THEN [ok |-> FALSE, group |-> <<>>]
             ELSE LET b == Least(starts) + Len(name) + 2
                  IN  [ok |-> TRUE, group |-> SubSeq(code, b, Greatest(CallEnds(code, b)) - 1)]

\* code.match(/name\(['"](.*)['"]\)/): the leftmost start that has an end, and for it
\* the last end (.* is greedy); group is the text between the quotes
CallMatch(code, name) ==
    LET starts == {i \in CallStarts(code, name) : CallEnds(code, i + Len(name) + 2) # {}}
    IN  IF starts = {} THEN [ok |-> FALSE, group |-> <<>>]
        ELSE LET b == Least(starts) + Len(name) + 2
             IN  [ok |-> TRUE, group |-> SubSeq(code, b, Greatest(CallEnds(code, b)) - 1)]

PrintName == <<"p","r","i","n","t">>
LogName == <<"c","o","n","s","o","l","e",".","l","o","g">>
SumWord == <<"s","u","m">>
RangeWord == <<"r","a","n","g","e">>
PrimeWord == <<"p","r","i","m","e">>
MathWord == <<"M","a","t","h",".">>

\* a result: one of the fixed texts, or the text a match captured, or the text built
\* around the language
Fixed(message) == [fixed |-> message, text |-> <<>>, language |-> ""]
Captured(group) == [fixed |-> "", text |-> group, language |-> ""]

\* the body of the try block for a code that is a string
Simulated(language, code) ==
    IF language = "python"
    THEN IF Includes(code, PrintName)
         THEN LET printMatch == CallMatch(code, PrintName)
              IN  IF printMatch.ok THEN Captured(printMatch.group)
                  ELSE Fixed("Output from Python code")
         ELSE IF Includes(code, SumWord) \/ Includes(code, RangeWord)
         THEN Fixed("Calculated sum: 1275")
         ELSE IF Includes(code, PrimeWord) THEN Fixed("Sum of first 50 primes: 5117")
         ELSE Fixed("Python code executed successfully")
    ELSE IF language \in {"javascript", "js"}
    THEN IF Includes(code, LogName)
         THEN LET logMatch == CallMatch(code, LogName)
              IN  IF logMatch.ok THEN Captured(logMatch.group)
                  ELSE Fixed("Output from JavaScript code")
         ELSE IF Includes(code, MathWord) THEN Fixed("Calculated result: 42")
         ELSE Fixed("JavaScript code executed successfully")
    ELSE [fixed |-> "Executed  code successfully", text |-> <<>>, language |-> language]

\* code.includes throws a TypeError when code is not a string; the other languages
\* never look at the code
Throws(language, code) == code = Absent /\ language \in {"python", "javascript", "js"}

\* how the promise of executeCode(language, code) settles when its timer fires
executeCode(language, code) ==
    IF Throws(language, code)
    THEN [settled |-> "rejected", status |-> "error", result |-> Fixed("Error: TypeError")]
    ELSE [settled |-> "resolved", status |-> "success", result |-> Simulated(language, code)]

Languages == {"python", "javascript", "js", "ruby"}

\* the code of the blocks the user runs; a block delivered without code has none
CodeInputs ==
    { <<"p","r","i","n","t","(","'","h","i","'",")">>,
      <<"p","r","i","n","t","(","\"","a","\"",")",";","p","r","i","n","t","(","'","b","'",")">>,
      <<"p","r","i","n","t","(","x",")">>,
      <<"s","u","m","(","r","a","n","g","e","(","3",")",")">>,
      <<"i","s","_","p","r","i","m","e">>,
      <<"p","a","s","s">>,
      <<"c","o","n","s","o","l","e",".","l","o","g","(","'","o","k","'",")">>,
      <<"M","a","t","h",".","P","I">>,
      Absent }

\* the Run Code button: handleExecuteCode calls executeCode, which starts its timer
handleExecuteCode(language, code) ==
    /\ Len(execPending) + Len(execLog) < MaxRuns
    /\ execPending' = Append(execPending, [language |-> language, code |-> code])
    /\ UNCHANGED <<execLog, extractVars, storeVars, chatVars, histVars, settingsVars>>
    /\ UNCHANGED genVars
    /\ UNCHANGED faultVars
    /\ UNCHANGED assemblyVars
    /\ UNCHANGED blockVars
    /\ UNCHANGED imageVars

\* the timer of the oldest call fires and its promise settles
timerFires ==
    /\ execPending # <<>>
    /\ LET call == Head(execPending)
           outcome == executeCode(call.language, call.code)
       IN  execLog' = Append(execLog, [language |-> call.language, code |-> call.code,
                                       settled |-> outcome.settled, status |-> outcome.status,
                                       result |-> outcome.result])
    /\ execPending' = Tail(execPending)
    /\ UNCHANGED <<extractVars, storeVars, chatVars, histVars, settingsVars>>
    /\ UNCHANGED genVars
    /\ UNCHANGED faultVars
    /\ UNCHANGED assemblyVars
    /\ UNCHANGED blockVars
    /\ UNCHANGED imageVars

ExecInit == ExtractIdle /\ ChatIdle /\ StoreIdle /\ HistIdle /\ SettingsIdle /\ ExecIdle
    /\ GenIdle
    /\ FaultIdle
    /\ AssemblyIdle
    /\ BlockIdle
    /\ ImageIdle

ExecNext ==
    \/ \E language \in Languages, code \in CodeInputs : handleExecuteCode(language, code)
    \/ timerFires

SpecExec == ExecInit /\ [][ExecNext]_vars

(***************************************************************************)
(* The code blocks of one message (ChatMessage) and their Run buttons      *)
(***************************************************************************)
MaxBlocks == 2
MaxRunning == 2

\* executionStatus of a block that has no execution result
NotRun == "(not run)"

\* a block as parseResponseParts and extractCodeBlocks deliver it
FreshBlock(language, code) ==
    [language |-> language, code |-> code,
     executionResult |-> Fixed(""), executionStatus |-> NotRun]

BlockChoices ==
    { FreshBlock("python", <<"p","r","i","n","t","(","'","h","i","'",")">>),
      FreshBlock("python", <<"p","a","s","s">>),
      FreshBlock("js", <<"M","a","t","h",".","P","I">>),
      FreshBlock("ruby", <<"p","a","s","s">>) }

\* message.codeBlocks of the messages the component is mounted for
MessageBlocks ==
    UNION { [1..n -> BlockChoices] : n \in 1..MaxBlocks }

\* the block list after the promise of executeCode settled: a copy of the list the
\* handler closed over, with the outcome written into the block at index
Executed(blocks, index, outcome) ==
    [blocks EXCEPT ![index] =
        [@ EXCEPT !.executionResult =
                      IF outcome.settled = "resolved" THEN outcome.result
                      ELSE Fixed("Error: [object Object]"),
                  !.executionStatus = outcome.status]]

\* the Run Code button of block index is clicked: handleExecuteCode up to its await
clickRunCode(index) ==
    /\ index \in DOMAIN codeBlocks
    /\ executingCodeIndex # index
    /\ Len(running) < MaxRunning
    /\ executingCodeIndex' = index
    /\ running' = Append(running, [index |-> index,
                                   language |-> codeBlocks[index].language,
                                   code |-> codeBlocks[index].code,
                                   codeBlocks |-> codeBlocks])
    /\ UNCHANGED codeBlocks
    /\ UNCHANGED <<extractVars, storeVars, chatVars, histVars, settingsVars, execVars>>
    /\ UNCHANGED <<genVars, faultVars, assemblyVars>>
    /\ UNCHANGED imageVars

\* the timer of the oldest executeCode call fires and handleExecuteCode resumes
executionSettles ==
    /\ running # <<>>
    /\ LET call == Head(running)
       IN  codeBlocks' = Executed(call.codeBlocks, call.index,
                                  executeCode(call.language, call.code))
    /\ executingCodeIndex' = NoIndex
    /\ running' = Tail(running)
    /\ UNCHANGED <<extractVars, storeVars, chatVars, histVars, settingsVars, execVars>>
    /\ UNCHANGED <<genVars, faultVars, assemblyVars>>
    /\ UNCHANGED imageVars

BlocksInit ==
    /\ ExtractIdle /\ ChatIdle /\ StoreIdle /\ HistIdle /\ SettingsIdle /\ ExecIdle
    /\ GenIdle /\ FaultIdle /\ AssemblyIdle /\ ImageIdle
    /\ codeBlocks \in MessageBlocks
    /\ executingCodeIndex = NoIndex
    /\ running = <<>>

BlocksNext ==
    \/ \E index \in 1..MaxBlocks : clickRunCode(index)
    \/ executionSettles

SpecBlocks == BlocksInit /\ [][BlocksNext]_vars

(***************************************************************************)
(* The image selection of the input (ChatInput.handleImageUpload)          *)
(***************************************************************************)
MaxFiles == 3

\* file.type as major and minor part
PngType == <<"image", "png">>
PlainType == <<"text", "plain">>
FileTypes == {PngType, PlainType}

\* file.type.startsWith('image/')
IsImageType(type) == type[1] = "image"

\* the selections of one file dialog
Selections == UNION { [1..n -> FileTypes] : n \in 1..MaxFiles }

\* an image that was pending before the selection
EarlierImage == [dataUrl |-> <<"earlier">>, mimeType |-> PngType]

\* the image a reader delivers for file i
ImageOf(i, type) == [dataUrl |-> <<"file", i>>, mimeType |-> type]

\* setImages(prev => [...prev, ...newImages]) once processedFiles === totalFiles
AfterLoad(prev, newImages, processedFiles, totalFiles) ==
    IF processedFiles = totalFiles THEN prev \o newImages ELSE prev

\* the files of the input change: non-image files are counted at once, a reader is
\* started for every other file
handleImageUpload(files) ==
    /\ upload = NoUpload
    /\ Len(files) > 0
    /\ upload' = [files |-> files,
                  state |-> [i \in DOMAIN files |->
                                IF IsImageType(files[i]) THEN "reading" ELSE "skipped"],
                  newImages |-> <<>>,
                  processedFiles |-> Cardinality({i \in DOMAIN files : ~IsImageType(files[i])}),
                  before |-> images]
    /\ UNCHANGED images
    /\ UNCHANGED <<extractVars, storeVars, chatVars, histVars, settingsVars, execVars>>
    /\ UNCHANGED <<genVars, faultVars, assemblyVars, blockVars>>

\* reader.onload of file i; hasResult is whether event.target.result is truthy
readerLoads(i, hasResult) ==
    /\ i \in DOMAIN upload.state
    /\ upload.state[i] = "reading"
    /\ LET newImages == IF hasResult
                        THEN Append(upload.newImages, ImageOf(i, upload.files[i]))
                        ELSE upload.newImages
           processedFiles == upload.processedFiles + 1
       IN  /\ upload' = [upload EXCEPT !.state[i] = IF hasResult THEN "loaded" ELSE "empty",
                                       !.newImages = newImages,
                                       !.processedFiles = processedFiles]
           /\ images' = AfterLoad(images, newImages, processedFiles, Len(upload.files))
    /\ UNCHANGED <<extractVars, storeVars, chatVars, histVars, settingsVars, execVars>>
    /\ UNCHANGED <<genVars, faultVars, assemblyVars, blockVars>>

\* reader.onerror of file i
readerFails(i) ==
    /\ i \in DOMAIN upload.state
    /\ upload.state[i] = "reading"
    /\ upload' = [upload EXCEPT !.state[i] = "failed",
                                !.processedFiles = upload.processedFiles + 1]
    /\ UNCHANGED images
    /\ UNCHANGED <<extractVars, storeVars, chatVars, histVars, settingsVars, execVars>>
    /\ UNCHANGED <<genVars, faultVars, assemblyVars, blockVars>>

ImagesInit ==
    /\ ExtractIdle /\ ChatIdle /\ StoreIdle /\ HistIdle /\ SettingsIdle /\ ExecIdle
    /\ GenIdle /\ FaultIdle /\ AssemblyIdle /\ BlockIdle
    /\ images \in {<<>>, <<EarlierImage>>}
    /\ upload = NoUpload

ImagesNext ==
    \/ \E files \in Selections : handleImageUpload(files)
    \/ \E i \in 1..MaxFiles, hasResult \in BOOLEAN : readerLoads(i, hasResult)
    \/ \E i \in 1..MaxFiles : readerFails(i)

SpecImages == ImagesInit /\ [][ImagesNext]_vars

(***************************************************************************)
(* generateStreamingChatResponse (gemini.ts): the thinking exchange and    *)
(* the stream loop                                                         *)
(***************************************************************************)
MaxStream == 4

\* the phrases of the thinking regex; the i flag matches them in any case
LeadIns == {"Let me think through this step by step:",
            "let me think through this step by step:"}
Closings == {"In conclusion", "Therefore", "To summarize", "In summary", "The answer is",
             "therefore"}

\* the first position >= i of s that holds one of the phrases, 0 if none
RECURSIVE FirstOf(_, _, _)
FirstOf(s, i, phrases) ==
    IF i > Len(s) THEN 0
    ELSE IF s[i] \in phrases THEN i
    ELSE FirstOf(s, i + 1, phrases)

\* the leftmost lead-in that has a closing phrase after it, 0 if none
RECURSIVE LeadFrom(_, _)
LeadFrom(s, i) ==
    LET lead == FirstOf(s, i, LeadIns)
    IN  IF lead = 0 THEN 0
        ELSE IF FirstOf(s, lead + 1, Closings) # 0 THEN lead
        ELSE LeadFrom(s, lead + 1)

\* gemini.ts 204-209: the text between the lead-in and the first closing phrase,
\* trimmed, replaces the response text when it is not empty
ExtractThinking(response) ==
    IF response = <<>> THEN response
    ELSE LET lead == LeadFrom(response, 1)
         IN  IF lead = 0 THEN response
             ELSE LET close == FirstOf(response, lead + 1, Closings)
                      group == SubSeq(response, lead + 1, close - 1)
                  IN  IF group = <<>> THEN response ELSE trim(group)

\* responses of the thinking exchange, phrase by phrase
ThinkingResponses ==
    { <<>>,
      <<"w">>,
      <<"Let me think through this step by step:", SP, "w", SP, "Therefore", "x">>,
      <<"let me think through this step by step:", "In summary">>,
      <<"w", "Let me think through this step by step:", "v", "therefore", "x", "Therefore">>,
      <<"Let me think through this step by step:", SP, "w">> }

\* a part of a chunk: text, or executable code
TextPart(t) == [text |-> t, executable_code |-> FALSE, language |-> <<>>, code |-> <<>>]
CodePart(language, code) ==
    [text |-> <<>>, executable_code |-> TRUE, language |-> language, code |-> code]

\* gemini.ts 67: the markdown written for an executable code part
CodeMarkdown(language, code) ==
    <<NL>> \o Fence \o language \o <<NL>> \o code \o <<NL>> \o Fence \o <<NL>>

RECURSIVE parseResponseParts(_)
parseResponseParts(parts) ==
    IF parts = <<>> THEN [textContent |-> <<>>, codeBlocks |-> <<>>]
    ELSE LET part == Head(parts)
             rest == parseResponseParts(Tail(parts))
         IN  IF part.text # <<>>
             THEN [textContent |-> part.text \o rest.textContent,
                   codeBlocks |-> rest.codeBlocks]
             ELSE IF part.executable_code
             THEN [textContent |-> CodeMarkdown(toLowerCase(part.language), part.code)
                                   \o rest.textContent,
                   codeBlocks |-> <<[language |-> toLowerCase(part.language),
                                     code |-> part.code]>> \o rest.codeBlocks]
             ELSE rest

\* the chunks a stream delivers as parts
PartsChunks ==
    { <<TextPart(<<"A">>)>>,
      <<TextPart(FencedRegion(<<>>, <<"A">>))>>,
      <<CodePart(<<"P","Y">>, <<"A">>)>>,
      <<TextPart(<<SP>>), CodePart(<<"j","s">>, <<"A", SP>>)>>,
      <<TextPart(<<>>)>> }

\* allCodeBlocks.length > 0 ? allCodeBlocks : undefined
OrUndefined(list) == [defined |-> Len(list) > 0, list |-> list]

\* onChunk(fullResponse, thinking, allCodeBlocks.length > 0 ? allCodeBlocks : undefined)
Call(chunk, thought, blocks) ==
    [called |-> TRUE, chunk |-> chunk, thinking |-> thought, codeBlocks |-> OrUndefined(blocks)]

\* gemini.ts 248-250: the blocks of a parts chunk are added to the collection
AfterParts(all, chunkBlocks) == IF Len(chunkBlocks) > 0 THEN all \o chunkBlocks ELSE all

\* gemini.ts 257-261, 269-272: the blocks found in the text replace the collection
AfterText(all, markdownCodeBlocks) ==
    IF Len(markdownCodeBlocks) > 0 THEN markdownCodeBlocks ELSE all

\* the state a failed thinking exchange would leave if its error were not caught
ThinkingErrorEscapes == [pc |-> "failed", sent |-> FALSE]

\* gemini.ts 210-213, 216-236: the catch logs and the main exchange is sent
ThinkingErrorCaught == [pc |-> "sending", sent |-> TRUE]

\* the call, up to its first await
startGeneration(enableThinking) ==
    /\ genPc = "idle"
    /\ text = <<>>
    /\ IF enableThinking
       THEN genPc' = "thinking" /\ streamSent' = FALSE
       ELSE genPc' = "sending" /\ streamSent' = TRUE
    /\ UNCHANGED <<thinkingResult, thinking, allCodeBlocks, onChunkCall, thinkingThrew>>
    /\ UNCHANGED <<extractVars, storeVars, chatVars, histVars, settingsVars, execVars>>
    /\ UNCHANGED faultVars
    /\ UNCHANGED assemblyVars
    /\ UNCHANGED blockVars
    /\ UNCHANGED imageVars

\* chat.sendMessage(thinkingPrompt) resolves
thinkingReturns(response) ==
    /\ genPc = "thinking"
    /\ thinkingResult' = response
    /\ thinking' = ExtractThinking(response)
    /\ genPc' = "sending"
    /\ streamSent' = TRUE
    /\ UNCHANGED <<allCodeBlocks, onChunkCall, thinkingThrew>>
    /\ UNCHANGED <<extractVars, storeVars, chatVars, histVars, settingsVars, execVars>>
    /\ UNCHANGED faultVars
    /\ UNCHANGED assemblyVars
    /\ UNCHANGED blockVars
    /\ UNCHANGED imageVars

\* chat.sendMessage(thinkingPrompt) rejects
thinkingThrows ==
    /\ genPc = "thinking"
    /\ thinkingThrew' = TRUE
    /\ genPc' = ThinkingErrorCaught.pc
    /\ streamSent' = ThinkingErrorCaught.sent
    /\ UNCHANGED <<thinkingResult, thinking, allCodeBlocks, onChunkCall>>
    /\ UNCHANGED <<extractVars, storeVars, chatVars, histVars, settingsVars, execVars>>
    /\ UNCHANGED faultVars
    /\ UNCHANGED assemblyVars
    /\ UNCHANGED blockVars
    /\ UNCHANGED imageVars

\* chat.sendMessageStream resolves with the stream
streamOpens ==
    /\ genPc = "sending"
    /\ genPc' = "streaming"
    /\ UNCHANGED <<thinkingResult, thinking, allCodeBlocks, onChunkCall, thinkingThrew, streamSent>>
    /\ UNCHANGED <<extractVars, storeVars, chatVars, histVars, settingsVars, execVars>>
    /\ UNCHANGED faultVars
    /\ UNCHANGED assemblyVars
    /\ UNCHANGED blockVars
    /\ UNCHANGED imageVars

\* chat.sendMessageStream rejects, or the stream throws: the outer catch rethrows
streamThrows ==
    /\ genPc \in {"sending", "streaming"}
    /\ genPc' = "failed"
    /\ UNCHANGED <<thinkingResult, thinking, allCodeBlocks, onChunkCall, thinkingThrew, streamSent>>
    /\ UNCHANGED <<extractVars, storeVars, chatVars, histVars, settingsVars, execVars>>
    /\ UNCHANGED faultVars
    /\ UNCHANGED assemblyVars
    /\ UNCHANGED blockVars
    /\ UNCHANGED imageVars

\* one turn of the loop for a chunk that has no parts array
receiveText(chunkText) ==
    /\ genPc = "streaming"
    /\ nParts < MaxStream
    /\ text' = text \o chunkText
    /\ nParts' = nParts + 1
    /\ allCodeBlocks' = AfterText(allCodeBlocks, extractCodeBlocks(text'))
    /\ onChunkCall' = Call(text', thinking, allCodeBlocks')
    /\ UNCHANGED <<fences, genPc, thinkingResult, thinking, thinkingThrew, streamSent>>
    /\ UNCHANGED <<storeVars, chatVars, histVars, settingsVars, execVars>>
    /\ UNCHANGED faultVars
    /\ UNCHANGED assemblyVars
    /\ UNCHANGED blockVars
    /\ UNCHANGED imageVars

\* one turn of the loop for a chunk that has a parts array
receiveParts(parts) ==
    /\ genPc = "streaming"
    /\ nParts < MaxStream
    /\ LET parsed == parseResponseParts(parts)
       IN  /\ text' = text \o parsed.textContent
           /\ allCodeBlocks' = AfterParts(allCodeBlocks, parsed.codeBlocks)
    /\ nParts' = nParts + 1
    /\ onChunkCall' = Call(text', thinking, allCodeBlocks')
    /\ UNCHANGED <<fences, genPc, thinkingResult, thinking, thinkingThrew, streamSent>>
    /\ UNCHANGED <<storeVars, chatVars, histVars, settingsVars, execVars>>
    /\ UNCHANGED faultVars
    /\ UNCHANGED assemblyVars
    /\ UNCHANGED blockVars
    /\ UNCHANGED imageVars

\* the stream ends: the final extraction, the final onChunk, the return
streamEnds ==
    /\ genPc = "streaming"
    /\ allCodeBlocks' = AfterText(allCodeBlocks, extractCodeBlocks(text))
    /\ onChunkCall' = Call(text, thinking, allCodeBlocks')
    /\ genPc' = "done"
    /\ UNCHANGED <<thinkingResult, thinking, thinkingThrew, streamSent>>
    /\ UNCHANGED <<extractVars, storeVars, chatVars, histVars, settingsVars, execVars>>
    /\ UNCHANGED faultVars
    /\ UNCHANGED assemblyVars
    /\ UNCHANGED blockVars
    /\ UNCHANGED imageVars

GenInit == ExtractIdle /\ ChatIdle /\ StoreIdle /\ HistIdle /\ SettingsIdle /\ ExecIdle
    /\ GenIdle
    /\ FaultIdle
    /\ AssemblyIdle
    /\ BlockIdle
    /\ ImageIdle

GenNext ==
    \/ \E enableThinking \in BOOLEAN : startGeneration(enableThinking)
    \/ \E response \in ThinkingResponses : thinkingReturns(response)
    \/ thinkingThrows
    \/ streamOpens
    \/ streamThrows
    \/ \E chunkText \in Chunks : receiveText(chunkText)
    \/ \E parts \in PartsChunks : receiveParts(parts)
    \/ streamEnds

SpecGen == GenInit /\ [][GenNext]_vars

(***************************************************************************)
(* generateStreamingChatResponse (gemini.ts): the assembly of the system   *)
(* instruction.  An instruction text is a sequence of phrases; the phrases *)
(* the code searches for are phrases of their own.                         *)
(***************************************************************************)
ThinkingMark == "thinking process"
CodeMark == "code blocks"
VisionMark == "analyzing images"
RichMark == "rich text formatting"

\* gemini.ts 152, 156-164, 168, 173-181: the four guidance texts
ThinkingGuidance ==
    <<"\nWhen answering complex questions, first explain your ", ThinkingMark,
      " step by step before providing the final answer.">>
CodeGuidance ==
    <<"\nWhen asked to provide code:\n1. Always wrap code in proper markdown ", CodeMark,
      " with the appropriate language tag">>
VisionGuidance ==
    <<"\nYou are ", VisionMark, " provided by the user.">>
RichGuidance ==
    <<"\nAlways use ", RichMark, " in your responses:", " blocks">>

Guidances == {ThinkingGuidance, CodeGuidance, VisionGuidance, RichGuidance}

\* a guidance is appended whether or not the text already holds its phrase
NeverIncludes(instruction, phrase) == FALSE

\* String.prototype.includes for one of the searched phrases
IncludesPhrase(instruction, phrase) == \E k \in DOMAIN instruction : instruction[k] = phrase

\* the option values a call can carry; images is the number of attached images
AssemblyOptions ==
    [enableThinking : BOOLEAN, enableCodeExecution : BOOLEAN, enableVision : BOOLEAN,
     images : 0..1]

\* gemini.ts 148-182
assemble(instruction, options) ==
    LET s0 == instruction
        s1 == IF options.enableThinking /\ ~IncludesPhrase(s0, ThinkingMark)
              THEN s0 \o ThinkingGuidance ELSE s0
        s2 == IF options.enableCodeExecution /\ ~IncludesPhrase(s1, CodeMark)
              THEN s1 \o CodeGuidance ELSE s1
        s3 == IF options.enableVision /\ options.images > 0 /\ ~IncludesPhrase(s2, VisionMark)
              THEN s2 \o VisionGuidance ELSE s2
    IN  IF ~IncludesPhrase(s3, RichMark) THEN s3 \o RichGuidance ELSE s3

\* part_002 54-80: the default instruction speaks of code blocks twice
DefaultInstructionText ==
    <<"You are a helpful, accurate, and detailed AI assistant.",
      " with proper markdown ", CodeMark, " Use ", CodeMark, " with language specification">>

\* instructions a user can have saved in the settings; none holds a guidance text
BaseInstructions ==
    { <<>>,
      DefaultInstructionText,
      <<"Be brief.">>,
      <<"Show your ", ThinkingMark, ".">>,
      <<"I like ", RichMark>>,
      <<"You are ", VisionMark, " of cats.">>,
      <<"Use Code Blocks.">>,
      <<"Answer in French, keep ", CodeMark, " short.">> }

\* the assembly is applied to the text at hand
assembleInstruction(options) ==
    /\ systemInstructions' = assemble(systemInstructions, options)
    /\ UNCHANGED <<extractVars, storeVars, chatVars, histVars, settingsVars, execVars>>
    /\ UNCHANGED genVars
    /\ UNCHANGED faultVars
    /\ UNCHANGED blockVars
    /\ UNCHANGED imageVars

AssemblyInit ==
    /\ ExtractIdle /\ ChatIdle /\ StoreIdle /\ HistIdle /\ SettingsIdle /\ ExecIdle
    /\ GenIdle /\ FaultIdle /\ BlockIdle /\ ImageIdle
    /\ systemInstructions \in BaseInstructions

AssemblyNext == \E options \in AssemblyOptions : assembleInstruction(options)

SpecAssembly == AssemblyInit /\ [][AssemblyNext]_vars

(***************************************************************************)
(* Claims about extractCodeBlocks                                          *)
(***************************************************************************)
IsPrefix(a, b) == Len(a) <= Len(b) /\ a = SubSeq(b, 1, Len(a))

\* the block a fenced region stands for: tag lower-cased, or "text"; body trimmed
BlockOf(f) ==
    [language |-> IF f.tag = <<>> THEN TextLanguage ELSE toLowerCase(f.tag),
     code |-> trim(f.body)]

\* C1: a text holding N complete fenced regions yields exactly N blocks, in
\* source order, each with the tag lower-cased (or "text") and the body trimmed.
C1_EveryFenceExtracted ==
    extractCodeBlocks(text) = [i \in DOMAIN fences |-> BlockOf(fences[i])]

\* C1 restricted to fences whose tag is made of word characters holds.
WordTagFencesExtracted ==
    (\A i \in DOMAIN fences : fences[i].tag \in WordTags) => C1_EveryFenceExtracted

\* C2: extraction is monotonic as text arrives: the blocks of a text are a
\* prefix of the blocks of every extension of it, a piece without a backtick
\* (no closing delimiter arrived) adds no block, and a closing delimiter adds
\* exactly one block and changes none of the earlier ones.
C2_Piece == SubSeq(text', Len(text) + 1, Len(text'))

C2_ExtractionMonotonic ==
    [][ LET old == extractCodeBlocks(text)
            new == extractCodeBlocks(text')
        IN  /\ IsPrefix(old, new)
            /\ Len(new) <= Len(old) + 1
            /\ (BT \notin Range(C2_Piece) => new = old) ]_vars

\* two blocks extracted, the second completed while the first stayed in place
C2_Witness ==
    /\ Len(extractCodeBlocks(text)) = 2
    /\ Len(extractCodeBlocks(SubSeq(text, 1, Len(text) - 1))) = 1

(***************************************************************************)
(* Claims about the chat controller                                        *)
(***************************************************************************)
\* send s starts its exchange: the user message and the placeholder are appended
SendStarts(s) == sends[s].pc = "idle" /\ sends'[s].pc = "streaming"

\* C3: after the open session was deleted from the sidebar, no send that
\* starts later appends its messages while currentSessionId still denotes
\* the deleted session.
C3_NoSendOnDeletedSession ==
    [][ \A s \in SendIds : SendStarts(s) => currentSessionId \notin deletedOpen ]_vars

Streaming == {i \in DOMAIN messages : messages[i].isStreaming}

\* C4: at most one message of the visible list has isStreaming = true.
C4_AtMostOneStreaming == Cardinality(Streaming) <= 1

\* a chunk callback, the completion or the rollback of send s runs
SendActs(s) == sends[s].pc = "streaming" /\ sends'[s] # sends[s]

OwnPlaceholder(s, m) == m.owner = s /\ m.isStreaming /\ m.role = "model"

\* C5: the chunk callbacks, the completion and the rollback of a send change
\* or remove only the placeholder that send created; every other message of
\* the visible list stays where it is, as it is.
C5_OnlyOwnPlaceholderTouched ==
    [][ \A s \in SendIds : SendActs(s) =>
          \A i \in DOMAIN messages :
              \/ OwnPlaceholder(s, messages[i])
              \/ i \in DOMAIN messages' /\ messages'[i] = messages[i] ]_vars

\* C6: a message that had finished streaming when a list was persisted for a
\* session keeps its position, role and text in every list persisted later
\* for that session.
C6_PersistedAppendOnly ==
    [][ \A k \in SessionIds : k \notin deletedIds' =>
          \A i \in DOMAIN savedDone[k] : savedDone[k][i] =>
              /\ i \in DOMAIN store'[k].messages
              /\ store'[k].messages[i] = store[k].messages[i] ]_vars

\* the streaming exchange of send s fails and the failure is handled
SendFails(s) == sends[s].pc = "streaming" /\ sends'[s].pc = "failed"

\* C7: after a failed exchange the visible list is the list before the send
\* plus the new user message, loading is false and an error banner is set.
C7_FailureRollsBack ==
    [][ \A s \in SendIds : SendFails(s) =>
          /\ messages' = sends[s].base
          /\ loading' = FALSE
          /\ error' # NoError ]_vars

\* C8: no request to the session store carries the API key, in its path or
\* in its payload.
C8_ApiKeyNotSentToStore ==
    \A r \in wire : "apiKey" \notin Range(r.path) /\ "apiKey" \notin r.payload

(***************************************************************************)
(* Claims about the store client                                           *)
(***************************************************************************)
\* the second write of saveMessages (the update of the session node) is applied
TitleWritten == Pending("update") /\ netq' = Tail(netq)

FirstIsUser(msgs) == Len(msgs) > 0 /\ msgs[1].role = "user"

\* C9: when the first message of the saved list is a user message the title
\* written is its text if that has 30 characters or fewer, and otherwise its
\* first 30 characters followed by "..."; in every other case the title is
\* left as it was.
C9_TitleDerivation ==
    [][ TitleWritten =>
          LET r == Head(netq)
              t == store'[r.sid].title
          IN  IF FirstIsUser(r.msgs)
              THEN LET parts == r.msgs[1].parts
                   IN  IF Len(parts) <= 30
                       THEN t = parts
                       ELSE /\ Len(t) = 33
                            /\ \A i \in 1..30 : t[i] = parts[i]
                            /\ \A i \in 31..33 : t[i] = "."
              ELSE t = store[r.sid].title ]_vars

\* a title cut from a longer first message is stored, and so is one kept whole
C9_Witness ==
    \E k \in SessionIds :
        /\ Len(store[k].messages) > 0
        /\ store[k].messages[1].role = "user"
        /\ Len(store[k].messages[1].parts) > TitleLimit
        /\ store[k].title = SubSeq(store[k].messages[1].parts, 1, TitleLimit) \o Ellipsis

\* a getChatSessions call returns its result to the caller
ListReturned == Pending("list") /\ Head(netq).cont # "init" /\ netq' = Tail(netq)

\* C10: the result of getChatSessions is ordered by updatedAt descending and
\* is a permutation of the stored sessions.
C10_ListSortedPermutation ==
    [][ ListReturned =>
          /\ \A i \in 1..(Len(sessions') - 1) :
                /\ sessions'[i].hasUpdatedAt
                /\ sessions'[i + 1].hasUpdatedAt
                /\ sessions'[i].updatedAt >= sessions'[i + 1].updatedAt
          /\ {sessions'[i].key : i \in DOMAIN sessions'} = Stored(store)
          /\ Len(sessions') = Cardinality(Stored(store)) ]_vars

(***************************************************************************)
(* Claims about the settings and the model                                 *)
(***************************************************************************)
\* C11: selecting a model without vision support switches enableVision off,
\* selecting one with vision support keeps its value, and in every reachable
\* state enableVision is true only when the selected model supports vision.
C11_VisionOnlyWhenSupported ==
    /\ [](settings.enableVision => supportsVision(settings.model))
    /\ [][ settings'.model # settings.model =>
             settings'.enableVision =
                 IF supportsVision(settings'.model) THEN settings.enableVision ELSE FALSE ]_vars

\* a model without vision support is selected and the switch is off
C11_Witness == ~supportsVision(settings.model) /\ ~settings.enableVision /\ nOps > 0

C18_ExecuteCodeAlwaysResolves ==
    \A i \in DOMAIN execLog :
        /\ execLog[i].settled = "resolved"
        /\ execLog[i].status = IF Throws(execLog[i].language, execLog[i].code)
                               THEN "error" ELSE "success"

(***************************************************************************)
(* Claims about what the store receives                                    *)
(***************************************************************************)
StoredFields == {"role", "parts", "thinking", "codeBlocks", "hasImages"}

\* C13: no stored message carries an isStreaming flag or an image payload:
\* images are reduced to the boolean hasImages, and code blocks are stored with
\* language and code only.
C13_StoredMessagesStripped ==
    \A k \in SessionIds : \A i \in DOMAIN store[k].messages :
        LET m == store[k].messages[i]
        IN  /\ DOMAIN m \subseteq StoredFields
            /\ "hasImages" \in DOMAIN m => m.hasImages \in BOOLEAN
            /\ "codeBlocks" \in DOMAIN m =>
                  \A b \in DOMAIN m.codeBlocks : DOMAIN m.codeBlocks[b] = {"language", "code"}

\* a streaming reply with an executed code block and a message with an image are stored
C13_Witness ==
    \E k \in SessionIds :
        /\ Len(store[k].messages) = 2
        /\ "hasImages" \in DOMAIN store[k].messages[1]
        /\ store[k].messages[1].hasImages
        /\ "codeBlocks" \in DOMAIN store[k].messages[2]

\* C14: while the most recent model initialization has failed, a
\* handleSendMessage call appends no message, starts no generation and leaves
\* an error banner set.
C14_NoSendAfterFailedInit ==
    [][ initFailed =>
          \A s \in SendIds : sends[s].pc = "idle" =>
              /\ sends'[s].pc = "idle"
              /\ (error' # error => error' # NoError) ]_vars

(***************************************************************************)
(* Claims about session initialization                                     *)
(***************************************************************************)
\* a read that initializeSession waits for settles
InitReadSettles(op) ==
    /\ Pending(op)
    /\ Head(netq).cont = "init"
    /\ netq' # netq
    /\ (netq' = <<>> \/ Len(netq') < Len(netq) \/ Head(netq') # Head(netq))

\* createNewSession has been called: its createChatSession request is the newest
FreshSessionRequested ==
    /\ netq' # <<>>
    /\ netq'[Len(netq')].op = "create"
    /\ netq'[Len(netq')].cont = "newSession"
    /\ nextId' = nextId + 1

\* C15: when a store read fails during initialization the controller falls back
\* to creating a fresh session: each read of initializeSession ends either with
\* the stored data shown or with createNewSession called.
C15_ReadFailureCreatesSession ==
    [][ /\ InitReadSettles("list") =>
              \/ FreshSessionRequested
              \/ Stored(store) # {} /\ netq'[Len(netq')].op = "getMessages"
        /\ InitReadSettles("getMessages") =>
              \/ FreshSessionRequested
              \/ /\ currentSessionId' = Head(netq).sid
                 /\ messages' = LoadedList(getMessages(store, Head(netq).sid)) ]_vars

\* the stored sessions no other stored session was updated after
MostRecent(st) ==
    {k \in Stored(st) : \A j \in Stored(st) : st[j].updatedAt <= st[k].updatedAt}

NewSessionSettles ==
    /\ Pending("create")
    /\ Head(netq).cont = "newSession"
    /\ netq' # netq
    /\ (netq' = <<>> \/ Len(netq') < Len(netq) \/ Head(netq') # Head(netq))

\* C16: session initialization, when at least one session is stored, reads the
\* messages of a session with the greatest updatedAt and ends with that session,
\* still stored, current and its stored messages visible; when no session is
\* stored it requests a new session, which becomes current with an empty
\* message list.
C16_InitLoadsMostRecent ==
    [][ /\ InitReadSettles("list") /\ Stored(store) # {} =>
              /\ netq' # <<>>
              /\ netq'[Len(netq')].op = "getMessages"
              /\ netq'[Len(netq')].cont = "init"
              /\ netq'[Len(netq')].sid \in MostRecent(store)
        /\ InitReadSettles("list") /\ Stored(store) = {} => FreshSessionRequested
        /\ InitReadSettles("getMessages") =>
              /\ Head(netq).sid \in Stored(store)
              /\ currentSessionId' = Head(netq).sid
              /\ messages' = LoadedList(store[Head(netq).sid].messages)
        /\ NewSessionSettles =>
              /\ currentSessionId' = Head(netq).sid
              /\ messages' = <<>> ]_vars

\* C20: a session whose deleteChatSession has completed stays absent from the
\* store: nothing is stored under its path afterwards and no result of
\* getChatSessions has an entry for it.
C20_DeletedStaysAbsent ==
    \A k \in deletedIds :
        /\ ~Exists(store[k])
        /\ \A result \in getChatSessions(store) :
              \A i \in DOMAIN result : result[i].key # k

(***************************************************************************)
(* Claims about generateStreamingChatResponse                              *)
(***************************************************************************)
\* C17: when the preliminary thinking exchange throws, the main streaming
\* exchange is sent next, thinking stays undefined in every onChunk call, and
\* the generation does not fail at that step.
C17_ThinkingFailureNotFatal ==
    /\ [](thinkingThrew =>
             /\ streamSent
             /\ thinking = Absent
             /\ (onChunkCall.called => onChunkCall.thinking = Absent))
    /\ [][genPc = "thinking" /\ thinkingThrew' => genPc' = "sending"]_vars

C17_Witness ==
    /\ thinkingThrew
    /\ genPc = "done"
    /\ onChunkCall.called
    /\ nParts >= 2

\* C19: the code-block list of every onChunk call is extractCodeBlocks of the
\* accumulated text of the same call, undefined when that extraction is empty.
C19_BlocksExtractedFromText ==
    onChunkCall.called =>
        onChunkCall.codeBlocks = OrUndefined(extractCodeBlocks(onChunkCall.chunk))

(***************************************************************************)
(* Claims about concurrent flows                                           *)
(***************************************************************************)
\* C21: a send starts its generation only when every earlier send has completed
\* or failed, so at most one generation is in flight.
C21_OneGenerationInFlight ==
    [][\A s \in SendIds :
          sends[s].pc # "streaming" /\ sends'[s].pc = "streaming" =>
              \A r \in SendIds : r < s => sends[r].pc \in {"done", "failed"}]_vars

\* the store answers the oldest pending request, which is of kind op
HeadServed(op) ==
    /\ Pending(op)
    /\ netq' # netq
    /\ (netq' = <<>> \/ Len(netq') < Len(netq) \/ Head(netq') # Head(netq))

StillStreaming(m) == "isStreaming" \in DOMAIN m /\ m.isStreaming

\* C22: the list saveMessages writes holds exactly the messages of the call
\* that were not streaming, so no streaming message is persisted.
C22_StreamingNeverPersisted ==
    [][HeadServed("setMessages") =>
          Len(store'[Head(netq).sid].messages)
              = Len(SelectSeq(Head(netq).msgs, LAMBDA m : ~StillStreaming(m)))]_vars

\* the text after the first lead-in, up to the first closing phrase after it or
\* to the end of the text, trimmed
ThinkingPart(response) ==
    LET lead == FirstOf(response, 1, LeadIns)
        close == FirstOf(response, lead + 1, Closings)
    IN  trim(SubSeq(response, lead + 1, IF close = 0 THEN Len(response) ELSE close - 1))

\* C23: when the response to the thinking prompt holds the lead-in phrase, the
\* thinking text is what follows it, up to the first closing phrase or the end
\* of the response, trimmed.
C23_ThinkingIsPartAfterLeadIn ==
    thinkingResult # Absent /\ FirstOf(thinkingResult, 1, LeadIns) # 0 =>
        thinking = ThinkingPart(thinkingResult)

WriteRejected(op) == Pending(op) /\ failedWrites' = failedWrites + 1

StoreWrites == {"create", "setMessages", "update", "rename", "remove"}

\* C24 as stated: a rejected store write of any kind leaves chatState.error and
\* the visible message list unchanged.
C24_WriteFailureNeverSurfaced ==
    [][\A op \in StoreWrites :
          WriteRejected(op) => error' = error /\ messages' = messages]_vars

\* C24 as amended: a rejected write of saveMessages, updateChatSessionTitle or
\* deleteChatSession leaves chatState.error and the visible list unchanged; a
\* rejected createChatSession of a new chat leaves the list unchanged and sets
\* chatState.error to the create message; when a send awaited it, the send goes
\* on: it appends its two messages and clears chatState.error.
C24_OnlyCreateFailureSurfaced ==
    [][ /\ \A op \in StoreWrites \ {"create"} :
              WriteRejected(op) => error' = error /\ messages' = messages
        /\ WriteRejected("create") /\ Head(netq).cont = "newSession" =>
              error' = CreateError /\ messages' = messages
        /\ WriteRejected("create") /\ Head(netq).cont = "send" =>
              /\ error' = NoError
              /\ messages' = messages \o <<UserMessage(Head(netq).who),
                                           ModelMessage(Head(netq).who)>> ]_vars

C24_Witness ==
    /\ failedWrites = MaxFailures
    /\ error = CreateError
    /\ messages # <<>>

(***************************************************************************)
(* Claims about the system instruction                                     *)
(***************************************************************************)
\* how many times the guidance text occurs in the instruction text
Occurrences(instruction, guidance) ==
    Cardinality({k \in 1..(Len(instruction) - Len(guidance) + 1) :
                    SubSeq(instruction, k, k + Len(guidance) - 1) = guidance})

\* C25: assembling an assembled instruction again with the same options appends
\* nothing, and each of the four guidance texts occurs at most once in it.
C25_AssemblyIdempotent ==
    /\ \A options \in AssemblyOptions :
          LET once == assemble(systemInstructions, options)
          IN  /\ assemble(once, options) = once
              /\ \A g \in Guidances : Occurrences(once, g) <= 1
    /\ \A g \in Guidances : Occurrences(systemInstructions, g) <= 1

C25_Witness ==
    /\ systemInstructions \notin BaseInstructions
    /\ \A g \in Guidances : Occurrences(systemInstructions, g) = 1

(***************************************************************************)
(* Claims about titles                                                     *)
(***************************************************************************)
\* C26: a title the user gave a session through updateChatSessionTitle is kept
\* by every later saveMessages for that session.
C26_UserTitleRetained ==
    [][HeadServed("update") /\ store[Head(netq).sid].title = UserTitle =>
          store'[Head(netq).sid].title = UserTitle]_vars

(***************************************************************************)
(* Claims about the end of a send                                          *)
(***************************************************************************)
\* every send that started has ended and the store has answered every request
Quiet ==
    /\ \A s \in SendIds : sends[s].pc \in {"idle", "done", "failed"}
    /\ \E s \in SendIds : sends[s].pc \in {"done", "failed"}
    /\ netq = <<>>

\* C27: once the streams of the sends have ended and nothing is pending, loading
\* is false and no message of the visible list is streaming.
C27_EndedSendsLeaveNoStreaming == Quiet => ~loading /\ Streaming = {}

(***************************************************************************)
(* Claims about a change of the settings                                   *)
(***************************************************************************)
\* a request issued on behalf of a re-run of the mount effect is answered
RerunSettles ==
    /\ netq # <<>>
    /\ Head(netq).who = EffectRerun
    /\ netq' # netq
    /\ (netq' = <<>> \/ Len(netq') < Len(netq) \/ Head(netq') # Head(netq))

\* the model or the system instruction is changed
ModelOrInstructionChanges ==
    \/ settings'.model # settings.model
    \/ settings'.systemInstruction # settings.systemInstruction

\* C28: a change of the selected model or of the system instruction, and every
\* step the change sets off, leaves currentSessionId and the visible message
\* list unchanged.
C28_SettingsChangeKeepsChat ==
    [][ ModelOrInstructionChanges \/ RerunSettles =>
          /\ currentSessionId' = currentSessionId
          /\ messages' = messages ]_vars

(***************************************************************************)
(* Claims about the Run buttons of a message                               *)
(***************************************************************************)
\* C29: when the execution of one block finishes, every other block of the
\* message keeps the execution result and status it carried.
C29_CompletionKeepsOtherResults ==
    [][ running # <<>> /\ running' = Tail(running) =>
          /\ Len(codeBlocks') = Len(codeBlocks)
          /\ \A i \in DOMAIN codeBlocks :
                i # Head(running).index => codeBlocks'[i] = codeBlocks[i] ]_vars

(***************************************************************************)
(* Claims about the image selection                                        *)
(***************************************************************************)
\* every file of the selection has finished: loaded, failed or skipped
SelectionFinished ==
    /\ upload # NoUpload
    /\ \A i \in DOMAIN upload.state : upload.state[i] # "reading"

\* the images of the selection that were read successfully
ReadImages ==
    {ImageOf(i, upload.files[i]) : i \in {k \in DOMAIN upload.state : upload.state[k] = "loaded"}}

\* C30: once every file of a selection has finished, the pending images are the
\* previously pending ones followed by all images of the selection that were
\* read successfully.
C30_SelectionCompletes ==
    SelectionFinished =>
        /\ Len(images) = Len(upload.before) + Cardinality(ReadImages)
        /\ SubSeq(images, 1, Len(upload.before)) = upload.before
        /\ {images[k] : k \in Len(upload.before) + 1 .. Len(images)} = ReadImages

====
